---- MODULE Spec2Model ----
(***************************************************************************)
(* The multi-channel message delivery and status-tracking core:            *)
(*   - MessagingService (src/services/messagingService.ts): the delivery   *)
(*     simulator and the three single-subscriber handler slots;            *)
(*   - the application shell (src/unnamed/part_000, App): the lead store,  *)
(*     the handlers it registers, sendMessage/addMessage and the webhook   *)
(*     correlator.                                                         *)
(*                                                                         *)
(* Time is counted in ticks of 100 ms, the greatest common unit of the     *)
(* delays of the source (600, 1000, 1500, 3000, 2000..6000 ms).  Every     *)
(* pending setTimeout is kept as the remaining ticks to its deadline.      *)
(* Date.now() is kept as `now`, renumbered: two reads return the same      *)
(* value exactly when no time has passed between them.                     *)
(***************************************************************************)
EXTENDS Integers, Sequences, FiniteSets, TLC

VARIABLES
    statusListener,     \* messagingService.ts:10
    typingListener,     \* messagingService.ts:11
    incomingListener,   \* messagingService.ts:9
    sends,              \* the MessagingService.sendMessage calls made so far
    replies,            \* the MessagingService.receiveMockReply calls made so far
    importers,          \* App state: the lead store
    selectedId,         \* App state
    importerTypingMap,  \* App state
    enrolled,           \* CampaignService: leads enrolled in a campaign
    hooks,              \* the webhook payloads handled so far, with the outcome
    statusReg,          \* the handler last passed to onMessageStatusUpdate
    typingReg,          \* the handler last passed to onTypingStatus
    incomingReg,        \* the handler last passed to onIncomingMessage
    now,                \* the value Date.now() returns
    stampUsed,          \* whether `now` has been read for an id since it changed
    ops,                \* the operations of the user and of the transport so far
    posts               \* the POSTs the webhook server has answered, with the answer

vars == <<statusListener, typingListener, incomingListener, sends, replies,
          importers, selectedId, importerTypingMap, enrolled, hooks, statusReg,
          typingReg, incomingReg, now, stampUsed, ops, posts>>

listenerVars == <<statusListener, typingListener, incomingListener, statusReg,
                  typingReg, incomingReg>>
storeVars == <<importers, enrolled>>
clockVars == <<now, stampUsed>>

(* ------------------------------ bounds -------------------------------- *)
MaxSends == 2
MaxReplies == 1
MaxHooks == 2
MaxOps == 4

(* --------------------------- enumerations ----------------------------- *)
WHATSAPP == "WHATSAPP"
WECHAT == "WECHAT"
EMAIL == "EMAIL"
Channel == {WHATSAPP, WECHAT, EMAIL}

SENDING == "SENDING"
SENT == "SENT"
DELIVERED == "DELIVERED"
READ == "READ"
FAILED == "FAILED"
undefined == "undefined"
MessageStatus == {SENDING, SENT, DELIVERED, READ, FAILED}

null == "null"

(* --------------------------- handler values --------------------------- *)
\* A handler slot holds null or a callback.  A callback of the application
\* is the closure the Messaging Listeners effect creates; it captures
\* selectedId.  Any other callback is named by its caller.
NoHandler == [owner |-> "none", sel |-> null]
AppHandler(sel) == [owner |-> "app", sel |-> sel]
ClientHandler(h) == [owner |-> "client", sel |-> h]
Handlers == {"h1", "h2"}

(* ------------------------------ helpers ------------------------------- *)
Min(S) == CHOOSE x \in S : \A y \in S : x <= y

(* ---------------------- MessagingService delays ----------------------- *)
\* latency with one delay for every channel.
latency_uniform(channel) == 6

\* const latency = channel === Channel.EMAIL ? 1500 : 600
latency(channel) == IF channel = EMAIL THEN 15 ELSE 6

\* deliveryDelay with the two delays exchanged.
deliveryDelay_emailFaster(channel) == IF channel = EMAIL THEN 10 ELSE 30

\* const deliveryDelay = channel === Channel.EMAIL ? 3000 : 1000
deliveryDelay(channel) == IF channel = EMAIL THEN 30 ELSE 10

\* 2000 + Math.random() * 4000, Math.random() in [0, 1): the two ends
readDelays == {20, 59}

\* Math.min(1000 + content.length * 30, 4000)
typingDuration(length) ==
    LET ms == 1000 + length * 30
    IN  (IF ms < 4000 THEN ms ELSE 4000) \div 100

(* ------------------------- the store (App) ---------------------------- *)
\* Date.now().toString() of addMessage, `wh-${Date.now()}` of the webhook
\* handler, and the literal ids of MOCK_IMPORTERS.
MessageId(prefix, t) == [pfx |-> prefix, t |-> t]

NewMessage(id, content, sender, channel, status) ==
    [id |-> id, content |-> content, sender |-> sender, channel |-> channel,
     status |-> status]

hasMessage(imp, messageId) ==
    \E j \in 1..Len(imp.chatHistory) : imp.chatHistory[j].id = messageId

\* chatHistory.map(m => m.id === messageId ? { ...m, status } : m)
setStatus(chatHistory, messageId, status) ==
    [j \in 1..Len(chatHistory) |->
        IF chatHistory[j].id = messageId
        THEN [chatHistory[j] EXCEPT !.status = status]
        ELSE chatHistory[j]]

\* statusUpdateHandler without the lookup: a lead that has not the message
\* gets the status on its newest message.
statusUpdateHandler_newestIfAbsent(prev, messageId, status) ==
    [k \in 1..Len(prev) |->
        IF hasMessage(prev[k], messageId)
        THEN [prev[k] EXCEPT !.chatHistory = setStatus(@, messageId, status)]
        ELSE IF Len(prev[k].chatHistory) > 0
        THEN [prev[k] EXCEPT !.chatHistory[Len(prev[k].chatHistory)].status = status]
        ELSE prev[k]]

\* statusUpdateHandler looking for the message in the first lead only.
statusUpdateHandler_firstLeadOnly(prev, messageId, status) ==
    [k \in 1..Len(prev) |->
        IF k = 1 /\ hasMessage(prev[k], messageId)
        THEN [prev[k] EXCEPT !.chatHistory = setStatus(@, messageId, status)]
        ELSE prev[k]]

\* The callback App gives to MessagingService.onMessageStatusUpdate.
statusUpdateHandler(prev, messageId, status) ==
    [k \in 1..Len(prev) |->
        IF hasMessage(prev[k], messageId)
        THEN [prev[k] EXCEPT !.chatHistory = setStatus(@, messageId, status)]
        ELSE prev[k]]

\* addMessage putting the new message first.
addMessage_prepends(prev, importerId, newMessage, sender, channelOverride) ==
    [k \in 1..Len(prev) |->
        IF prev[k].id # importerId THEN prev[k]
        ELSE [prev[k] EXCEPT
                !.chatHistory = <<newMessage>> \o @,
                !.activityLog =
                    IF sender = "agent"
                    THEN Append(@, <<"Outbound via", channelOverride>>)
                    ELSE IF sender = "importer"
                    THEN Append(@, <<"Inbound via", channelOverride>>)
                    ELSE @]]

\* The state update of addMessage.
addMessage(prev, importerId, newMessage, sender, channelOverride) ==
    [k \in 1..Len(prev) |->
        IF prev[k].id # importerId THEN prev[k]
        ELSE [prev[k] EXCEPT
                !.chatHistory = Append(@, newMessage),
                !.activityLog =
                    IF sender = "agent"
                    THEN Append(@, <<"Outbound via", channelOverride>>)
                    ELSE IF sender = "importer"
                    THEN Append(@, <<"Inbound via", channelOverride>>)
                    ELSE @]]

\* The state update of App's sendMessage after a rejected send.
markFailed(prev, importerId, messageId) ==
    [k \in 1..Len(prev) |->
        IF prev[k].id = importerId
        THEN [prev[k] EXCEPT !.chatHistory = setStatus(@, messageId, FAILED)]
        ELSE prev[k]]

\* stopEnrollment as a toggle of the enrollment.
stopEnrollment_toggles(set, id) == IF id \in set THEN set \ {id} ELSE set \cup {id}

\* CampaignService.stopEnrollment(id)
stopEnrollment(set, id) == set \ {id}

(* ------------------- emission through the handler slots --------------- *)
\* if (statusListener) statusListener(messageId, status)
notifyStatus(listener, prev, messageId, status) ==
    IF listener.owner = "app" THEN statusUpdateHandler(prev, messageId, status)
    ELSE prev

\* notifyTyping with a flag that, once set, stays set.
notifyTyping_keepsTrue(listener, prev, importerId, isTyping) ==
    IF listener.owner = "app"
    THEN (importerId :> (isTyping \/ (importerId \in DOMAIN prev /\ prev[importerId])))
         @@ prev
    ELSE prev

\* if (typingListener) typingListener(importerId, isTyping)
notifyTyping(listener, prev, importerId, isTyping) ==
    IF listener.owner = "app" THEN (importerId :> isTyping) @@ prev
    ELSE prev

Emission(status, listener) == [status |-> status, to |-> listener]

\* An operation of the user, of the webhook transport or of another caller.
Operation == ops < MaxOps /\ ops' = ops + 1

(* ------------------- MessagingService.sendMessage --------------------- *)
\* A call is kept with its position (pc), its pending timer (rem) and the
\* emissions it has made.  caller/lead say whose continuation awaits it:
\* App's sendMessage(importer, ...) or another caller.
NoResult == [returned |-> FALSE]
Success == [returned |-> TRUE, success |-> TRUE]
GatewayTimeout == [returned |-> TRUE, success |-> FALSE, error |-> "Gateway Timeout"]

SendCall(messageId, channel, caller, lead) ==
    [id |-> messageId, channel |-> channel, caller |-> caller, lead |-> lead,
     pc |-> "latency", rem |-> latency(channel), emitted |-> <<>>,
     result |-> NoResult]

\* The call, up to `await new Promise(resolve => setTimeout(resolve, latency))`.
MessagingService_sendMessage(messageId, channel, caller, lead) ==
    sends' = Append(sends, SendCall(messageId, channel, caller, lead))

\* latencyRejected with the SENT notification made before the failure test.
latencyRejected_notifiesFirst(c) ==
    /\ c \in 1..Len(sends)
    /\ sends[c].pc = "latency" /\ sends[c].rem = 0
    /\ sends' = [sends EXCEPT ![c].pc = "rejected", ![c].result = GatewayTimeout,
                              ![c].emitted = Append(@, Emission(SENT, statusListener))]
    /\ importers' = IF sends[c].caller = "app"
                    THEN markFailed(notifyStatus(statusListener, importers,
                                                 sends[c].id, SENT),
                                    sends[c].lead, sends[c].id)
                    ELSE importers
    /\ UNCHANGED <<listenerVars, replies, selectedId, importerTypingMap, enrolled,
                   hooks, posts, clockVars, ops>>

\* The latency timer fires and Math.random() > 0.98: the call returns
\* {success: false, error: 'Gateway Timeout'}; App's sendMessage, awaiting
\* it, marks the message FAILED.
latencyRejected(c) ==
    /\ c \in 1..Len(sends)
    /\ sends[c].pc = "latency" /\ sends[c].rem = 0
    /\ sends' = [sends EXCEPT ![c].pc = "rejected", ![c].result = GatewayTimeout]
    /\ importers' = IF sends[c].caller = "app"
                    THEN markFailed(importers, sends[c].lead, sends[c].id)
                    ELSE importers
    /\ UNCHANGED <<listenerVars, replies, selectedId, importerTypingMap, enrolled,
                   hooks, posts, clockVars, ops>>

\* latencyAccepted without the SENT notification.
latencyAccepted_skipsSent(c) ==
    /\ c \in 1..Len(sends)
    /\ sends[c].pc = "latency" /\ sends[c].rem = 0
    /\ sends' = [sends EXCEPT ![c].pc = "delivery",
                              ![c].rem = deliveryDelay(sends[c].channel),
                              ![c].result = Success]
    /\ UNCHANGED <<listenerVars, replies, importers, selectedId, importerTypingMap,
                   enrolled, hooks, posts, clockVars, ops>>

\* latencyAccepted writing SENT into the store itself.
latencyAccepted_writesStore(c) ==
    /\ c \in 1..Len(sends)
    /\ sends[c].pc = "latency" /\ sends[c].rem = 0
    /\ sends' = [sends EXCEPT ![c].pc = "delivery",
                              ![c].rem = deliveryDelay(sends[c].channel),
                              ![c].result = Success,
                              ![c].emitted = Append(@, Emission(SENT, statusListener))]
    /\ importers' = statusUpdateHandler(importers, sends[c].id, SENT)
    /\ UNCHANGED <<listenerVars, replies, selectedId, importerTypingMap, enrolled,
                   hooks, posts, clockVars, ops>>

\* latencyAccepted emitting DELIVERED along with SENT, before it returns.
latencyAccepted_deliversAtOnce(c) ==
    /\ c \in 1..Len(sends)
    /\ sends[c].pc = "latency" /\ sends[c].rem = 0
    /\ sends' = [sends EXCEPT ![c].pc = "delivery",
                              ![c].rem = deliveryDelay(sends[c].channel),
                              ![c].result = Success,
                              ![c].emitted = @ \o <<Emission(SENT, statusListener),
                                                    Emission(DELIVERED, statusListener)>>]
    /\ importers' = notifyStatus(statusListener,
                                 notifyStatus(statusListener, importers, sends[c].id, SENT),
                                 sends[c].id, DELIVERED)
    /\ UNCHANGED <<listenerVars, replies, selectedId, importerTypingMap, enrolled,
                   hooks, posts, clockVars, ops>>

\* The latency timer fires and the send is accepted: SENT is emitted, the
\* delivery timer is set and the call returns {success: true}.
latencyAccepted(c) ==
    /\ c \in 1..Len(sends)
    /\ sends[c].pc = "latency" /\ sends[c].rem = 0
    /\ sends' = [sends EXCEPT ![c].pc = "delivery",
                              ![c].rem = deliveryDelay(sends[c].channel),
                              ![c].result = Success,
                              ![c].emitted = Append(@, Emission(SENT, statusListener))]
    /\ importers' = notifyStatus(statusListener, importers, sends[c].id, SENT)
    /\ UNCHANGED <<listenerVars, replies, selectedId, importerTypingMap, enrolled,
                   hooks, posts, clockVars, ops>>

\* deliveryTimer retrying a SENT that was dropped for lack of a handler.
deliveryTimer_retries(c, readReceipt, readDelay) ==
    /\ c \in 1..Len(sends)
    /\ sends[c].pc = "delivery" /\ sends[c].rem = 0
    /\ sends' = [sends EXCEPT ![c].pc = IF readReceipt THEN "read" ELSE "done",
                              ![c].rem = IF readReceipt THEN readDelay ELSE 0,
                              ![c].emitted =
                                  @ \o (IF @[1].to = NoHandler /\ statusListener # NoHandler
                                        THEN <<Emission(SENT, statusListener)>>
                                        ELSE <<>>)
                                    \o <<Emission(DELIVERED, statusListener)>>]
    /\ importers' = notifyStatus(statusListener, importers, sends[c].id, DELIVERED)
    /\ UNCHANGED <<listenerVars, replies, selectedId, importerTypingMap, enrolled,
                   hooks, posts, clockVars, ops>>

\* The delivery timer fires: DELIVERED is emitted; with Math.random() > 0.3
\* the read timer is set (readDelay is its delay), otherwise nothing more.
deliveryTimer(c, readReceipt, readDelay) ==
    /\ c \in 1..Len(sends)
    /\ sends[c].pc = "delivery" /\ sends[c].rem = 0
    /\ sends' = [sends EXCEPT ![c].pc = IF readReceipt THEN "read" ELSE "done",
                              ![c].rem = IF readReceipt THEN readDelay ELSE 0,
                              ![c].emitted = Append(@, Emission(DELIVERED, statusListener))]
    /\ importers' = notifyStatus(statusListener, importers, sends[c].id, DELIVERED)
    /\ UNCHANGED <<listenerVars, replies, selectedId, importerTypingMap, enrolled,
                   hooks, posts, clockVars, ops>>

\* readTimer as a repeating timer (setInterval for setTimeout).
readTimer_repeats(c) ==
    /\ c \in 1..Len(sends)
    /\ sends[c].pc = "read" /\ sends[c].rem = 0
    /\ sends' = [sends EXCEPT ![c].rem = 20,
                              ![c].emitted = Append(@, Emission(READ, statusListener))]
    /\ importers' = notifyStatus(statusListener, importers, sends[c].id, READ)
    /\ UNCHANGED <<listenerVars, replies, selectedId, importerTypingMap, enrolled,
                   hooks, posts, clockVars, ops>>

\* The read timer fires: READ is emitted.
readTimer(c) ==
    /\ c \in 1..Len(sends)
    /\ sends[c].pc = "read" /\ sends[c].rem = 0
    /\ sends' = [sends EXCEPT ![c].pc = "done",
                              ![c].emitted = Append(@, Emission(READ, statusListener))]
    /\ importers' = notifyStatus(statusListener, importers, sends[c].id, READ)
    /\ UNCHANGED <<listenerVars, replies, selectedId, importerTypingMap, enrolled,
                   hooks, posts, clockVars, ops>>

(* ----------------------- handler registration ------------------------- *)
\* onMessageStatusUpdate keeping a handler that is already registered.
onMessageStatusUpdate_keepsFirst(handler) ==
    /\ statusListener' = IF statusListener = NoHandler THEN handler ELSE statusListener
    /\ statusReg' = handler

\* onMessageStatusUpdate taking a handler given twice as its removal.
onMessageStatusUpdate_removesOnRepeat(handler) ==
    /\ statusListener' = IF statusListener = handler THEN NoHandler ELSE handler
    /\ statusReg' = handler

onMessageStatusUpdate(handler) ==
    /\ statusListener' = handler
    /\ statusReg' = handler

onTypingStatus(handler) ==
    /\ typingListener' = handler
    /\ typingReg' = handler

onIncomingMessage(handler) ==
    /\ incomingListener' = handler
    /\ incomingReg' = handler

(* ----------------- MessagingService.receiveMockReply ------------------ *)
Falsy(x) == x \in {null, ""}

Event(kind, args, listener) == [kind |-> kind, args |-> args, to |-> listener]

\* incomingMessageHandler preferring the selected lead to the one named.
incomingMessageHandler_selectedFirst(sel, prev, prevEnrolled, importerId, content, channel, t) ==
    LET targetId == IF Falsy(sel) THEN importerId ELSE sel
    IN  IF Falsy(targetId)
        THEN [importers |-> prev, enrolled |-> prevEnrolled, stamped |-> FALSE]
        ELSE [importers |-> addMessage(prev, targetId,
                                NewMessage(MessageId("", t), content, "importer",
                                           channel, undefined),
                                "importer", channel),
              enrolled |-> stopEnrollment(prevEnrolled, targetId),
              stamped |-> TRUE]

\* The callback App gives to MessagingService.onIncomingMessage, as far as
\* the store goes: sel is the selectedId its closure captured, t is Date.now().
incomingMessageHandler(sel, prev, prevEnrolled, importerId, content, channel, t) ==
    LET targetId == IF Falsy(importerId) THEN sel ELSE importerId
    IN  IF Falsy(targetId)
        THEN [importers |-> prev, enrolled |-> prevEnrolled, stamped |-> FALSE]
        ELSE [importers |-> addMessage(prev, targetId,
                                NewMessage(MessageId("", t), content, "importer",
                                           channel, undefined),
                                "importer", channel),
              enrolled |-> stopEnrollment(prevEnrolled, targetId),
              stamped |-> TRUE]

\* if (incomingListener) incomingListener(importerId, 'unknown-contact', content, channel)
notifyIncoming(listener, prev, prevEnrolled, importerId, content, channel, t) ==
    IF listener.owner = "app"
    THEN incomingMessageHandler(listener.sel, prev, prevEnrolled, importerId,
                                content, channel, t)
    ELSE [importers |-> prev, enrolled |-> prevEnrolled, stamped |-> FALSE]

\* receiveMockReply announcing the typing to the status handler.
receiveMockReply_viaStatusSlot(importerId, content, channel) ==
    /\ replies' = Append(replies,
            [importerId |-> importerId, content |-> content, channel |-> channel,
             pc |-> "typing", rem |-> typingDuration(Len(content)),
             events |-> <<Event("typing", [importerId |-> importerId,
                                                    isTyping |-> TRUE],
                                 statusListener)>>])
    /\ importerTypingMap' =
            notifyTyping(statusListener, importerTypingMap, importerId, TRUE)

\* The call: typing-started is emitted and the typing timer is set.
receiveMockReply(importerId, content, channel) ==
    /\ replies' = Append(replies,
            [importerId |-> importerId, content |-> content, channel |-> channel,
             pc |-> "typing", rem |-> typingDuration(Len(content)),
             events |-> <<Event("typing", [importerId |-> importerId,
                                                    isTyping |-> TRUE],
                                 typingListener)>>])
    /\ importerTypingMap' =
            notifyTyping(typingListener, importerTypingMap, importerId, TRUE)

\* mockReplyTimer delivering the message before it stops the typing.
mockReplyTimer_messageFirst(r) ==
    /\ r \in 1..Len(replies)
    /\ replies[r].pc = "typing" /\ replies[r].rem = 0
    /\ LET rp == replies[r]
           got == notifyIncoming(incomingListener, importers, enrolled,
                                 rp.importerId, rp.content, rp.channel, now)
       IN  /\ replies' = [replies EXCEPT
                    ![r].pc = "done",
                    ![r].events = @ \o
                        <<Event("incoming", [importerId |-> rp.importerId,
                                             contact |-> "unknown-contact",
                                             content |-> rp.content,
                                             channel |-> rp.channel],
                                incomingListener),
                          Event("typing", [importerId |-> rp.importerId,
                                           isTyping |-> FALSE],
                                typingListener)>>]
           /\ importerTypingMap' =
                    notifyTyping(typingListener, importerTypingMap, rp.importerId, FALSE)
           /\ importers' = got.importers
           /\ enrolled' = got.enrolled
           /\ stampUsed' = (stampUsed \/ got.stamped)
    /\ UNCHANGED <<listenerVars, sends, selectedId, hooks, posts, now, ops>>

\* The typing timer fires: typing-stopped, then the message.
mockReplyTimer(r) ==
    /\ r \in 1..Len(replies)
    /\ replies[r].pc = "typing" /\ replies[r].rem = 0
    /\ LET rp == replies[r]
           got == notifyIncoming(incomingListener, importers, enrolled,
                                 rp.importerId, rp.content, rp.channel, now)
       IN  /\ replies' = [replies EXCEPT
                    ![r].pc = "done",
                    ![r].events = @ \o
                        <<Event("typing", [importerId |-> rp.importerId,
                                           isTyping |-> FALSE],
                                typingListener),
                          Event("incoming", [importerId |-> rp.importerId,
                                             contact |-> "unknown-contact",
                                             content |-> rp.content,
                                             channel |-> rp.channel],
                                incomingListener)>>]
           /\ importerTypingMap' =
                    notifyTyping(typingListener, importerTypingMap, rp.importerId, FALSE)
           /\ importers' = got.importers
           /\ enrolled' = got.enrolled
           /\ stampUsed' = (stampUsed \/ got.stamped)
    /\ UNCHANGED <<listenerVars, sends, selectedId, hooks, posts, now, ops>>

(* ------------------------------- time --------------------------------- *)
sendPending(c) == sends[c].pc \in {"latency", "delivery", "read"}
replyPending(r) == replies[r].pc = "typing"

pendingRems ==
    {sends[c].rem : c \in {x \in 1..Len(sends) : sendPending(x)}}
    \cup {replies[r].rem : r \in {x \in 1..Len(replies) : replyPending(x)}}

\* Time passes: d ticks, up to the deadline of the next timer (the callers
\* of the model act at the instants at which a timer is due, or less than a
\* tick later: d = 0, enough for Date.now() to change).
Advance(d) ==
    /\ d \in {0} \cup (IF pendingRems = {} THEN {} ELSE {Min(pendingRems)})
    /\ d = 0 => stampUsed
    /\ sends' = [c \in 1..Len(sends) |->
                    IF sendPending(c) THEN [sends[c] EXCEPT !.rem = @ - d]
                    ELSE sends[c]]
    /\ replies' = [r \in 1..Len(replies) |->
                    IF replyPending(r) THEN [replies[r] EXCEPT !.rem = @ - d]
                    ELSE replies[r]]
    /\ now' = IF stampUsed THEN now + 1 ELSE now
    /\ stampUsed' = FALSE
    /\ UNCHANGED <<listenerVars, importers, selectedId, importerTypingMap, enrolled,
                   hooks, posts, ops>>

(* ----------------------- JavaScript values ---------------------------- *)
\* What a webhook payload can hold: a value with its type.  A number is
\* kept as its decimal string, an object as its fields.
Undef == [t |-> "undefined", v |-> ""]
Null == [t |-> "null", v |-> ""]
Str(s) == [t |-> "string", v |-> s]
Num(s) == [t |-> "number", v |-> s]
Obj(fields) == [t |-> "object", v |-> "[object Object]", f |-> fields]

Truthy(x) ==
    CASE x.t \in {"undefined", "null"} -> FALSE
      [] x.t = "string" -> x.v # ""
      [] x.t = "number" -> x.v \notin {"0", "NaN"}
      [] OTHER -> TRUE

Nullish(x) == x.t \in {"undefined", "null"}

\* x.name, for x neither null nor undefined
Get(x, name) ==
    IF x.t = "object" /\ name \in DOMAIN x.f THEN x.f[name] ELSE Undef

\* s.includes(sub), on strings
includes(s, sub) ==
    \E i \in 0..(Len(s) - Len(sub)) : SubSeq(s, i + 1, i + Len(sub)) = sub

(* ------------------------ the webhook handler ------------------------- *)
\* payload?.entry?.[0]?.changes?.[0]?.value?.messages?.[0]: the chain is
\* kept as one field of the payload, absent when any link is.
firstMessage(payload) ==
    IF Nullish(payload) THEN Undef ELSE Get(payload, "entry[0].changes[0].value.messages[0]")

\* extract reading the WeChat fields under lower-case names.
extract_wechatLowercase(channel, payload) ==
    LET msg == firstMessage(payload)
        text == Get(msg, "text")
        body == IF Nullish(text) THEN Undef ELSE Get(text, "body")
        none == [threw |-> FALSE, content |-> Str(""), contact |-> Str("")]
    IN  IF channel = "WhatsApp"
        THEN IF Truthy(msg)
             THEN [threw |-> FALSE,
                   content |-> IF Truthy(body) THEN body ELSE Str("[Media]"),
                   contact |-> Get(msg, "from")]
             ELSE IF Nullish(payload)
             THEN [none EXCEPT !.threw = TRUE]
             ELSE IF Truthy(Get(payload, "message"))
             THEN [threw |-> FALSE, content |-> Get(payload, "message"),
                   contact |-> Get(payload, "from")]
             ELSE none
        ELSE IF channel = "WeChat"
        THEN IF Nullish(payload)
             THEN [none EXCEPT !.threw = TRUE]
             ELSE [threw |-> FALSE, content |-> Get(payload, "content"),
                   contact |-> Get(payload, "fromUserName")]
        ELSE none

\* extract trying payload.message / payload.from before the nested shape.
extract_fallbackFirst(channel, payload) ==
    LET msg == firstMessage(payload)
        text == Get(msg, "text")
        body == IF Nullish(text) THEN Undef ELSE Get(text, "body")
        none == [threw |-> FALSE, content |-> Str(""), contact |-> Str("")]
    IN  IF channel = "WhatsApp"
        THEN IF Nullish(payload)
             THEN [none EXCEPT !.threw = TRUE]
             ELSE IF Truthy(Get(payload, "message"))
             THEN [threw |-> FALSE, content |-> Get(payload, "message"),
                   contact |-> Get(payload, "from")]
             ELSE IF Truthy(msg)
             THEN [threw |-> FALSE,
                   content |-> IF Truthy(body) THEN body ELSE Str("[Media]"),
                   contact |-> Get(msg, "from")]
             ELSE none
        ELSE IF channel = "WeChat"
        THEN IF Nullish(payload)
             THEN [none EXCEPT !.threw = TRUE]
             ELSE [threw |-> FALSE, content |-> Get(payload, "Content"),
                   contact |-> Get(payload, "FromUserName")]
        ELSE none

\* extract taking the text body as it is, without the '[Media]' default.
extract_textOnly(channel, payload) ==
    LET msg == firstMessage(payload)
        text == Get(msg, "text")
        body == IF Nullish(text) THEN Undef ELSE Get(text, "body")
        none == [threw |-> FALSE, content |-> Str(""), contact |-> Str("")]
    IN  IF channel = "WhatsApp"
        THEN IF Truthy(msg)
             THEN [threw |-> FALSE, content |-> body, contact |-> Get(msg, "from")]
             ELSE IF Nullish(payload)
             THEN [none EXCEPT !.threw = TRUE]
             ELSE IF Truthy(Get(payload, "message"))
             THEN [threw |-> FALSE, content |-> Get(payload, "message"),
                   contact |-> Get(payload, "from")]
             ELSE none
        ELSE IF channel = "WeChat"
        THEN IF Nullish(payload)
             THEN [none EXCEPT !.threw = TRUE]
             ELSE [threw |-> FALSE, content |-> Get(payload, "Content"),
                   contact |-> Get(payload, "FromUserName")]
        ELSE none

\* The content and the contact the handler extracts, or the TypeError of
\* reading a property of null or undefined.
extract(channel, payload) ==
    LET msg == firstMessage(payload)
        text == Get(msg, "text")
        body == IF Nullish(text) THEN Undef ELSE Get(text, "body")
        none == [threw |-> FALSE, content |-> Str(""), contact |-> Str("")]
    IN  IF channel = "WhatsApp"
        THEN IF Truthy(msg)
             THEN [threw |-> FALSE,
                   content |-> IF Truthy(body) THEN body ELSE Str("[Media]"),
                   contact |-> Get(msg, "from")]
             ELSE IF Nullish(payload)
             THEN [none EXCEPT !.threw = TRUE]
             ELSE IF Truthy(Get(payload, "message"))
             THEN [threw |-> FALSE, content |-> Get(payload, "message"),
                   contact |-> Get(payload, "from")]
             ELSE none
        ELSE IF channel = "WeChat"
        THEN IF Nullish(payload)
             THEN [none EXCEPT !.threw = TRUE]
             ELSE [threw |-> FALSE, content |-> Get(payload, "Content"),
                   contact |-> Get(payload, "FromUserName")]
        ELSE none

\* contactTest without its second test.
contactTest_oneWay(imp, contact) ==
    IF includes(imp.contactDetail, contact.v) THEN "yes" ELSE "no"

\* i.contactDetail.includes(contact) || contact.includes(i.contactDetail):
\* "yes", "no", or "throws" when the second test is reached with a contact
\* that is no string (it has no includes method).
contactTest(imp, contact) ==
    IF includes(imp.contactDetail, contact.v) THEN "yes"
    ELSE IF contact.t # "string" THEN "throws"
    ELSE IF includes(contact.v, imp.contactDetail) THEN "yes"
    ELSE "no"

\* prev.find(...): the index of the first lead the test accepts, 0 when
\* there is none, -1 when the test throws before one is found.
RECURSIVE findFrom(_, _, _)
findFrom(prev, contact, k) ==
    IF k > Len(prev) THEN 0
    ELSE LET r == contactTest(prev[k], contact)
         IN  IF r = "yes" THEN k
             ELSE IF r = "throws" THEN -1
             ELSE findFrom(prev, contact, k + 1)

findExisting(prev, contact) == findFrom(prev, contact, 1)

\* appendInbound with the channel of the message fixed to WhatsApp.
appendInbound_whatsappOnly(prev, existingId, content, channel, t) ==
    [k \in 1..Len(prev) |->
        IF prev[k].id = existingId
        THEN [prev[k] EXCEPT
                !.status = "ENGAGED",
                !.chatHistory = Append(@,
                    NewMessage(MessageId("wh-", t), content.v, "importer",
                               WHATSAPP, DELIVERED)),
                !.activityLog = Append(@, <<"Incoming", channel, "message">>)]
        ELSE prev[k]]

\* appendInbound reaching the lead after the matched one as well.
appendInbound_alsoNext(prev, existingId, content, channel, t) ==
    [k \in 1..Len(prev) |->
        IF prev[k].id = existingId \/ (k > 1 /\ prev[k - 1].id = existingId)
        THEN [prev[k] EXCEPT
                !.status = "ENGAGED",
                !.chatHistory = Append(@,
                    NewMessage(MessageId("wh-", t), content.v, "importer",
                               IF channel = "WhatsApp" THEN WHATSAPP ELSE WECHAT,
                               DELIVERED)),
                !.activityLog = Append(@, <<"Incoming", channel, "message">>)]
        ELSE prev[k]]

\* The state update on a match: prev.map(i => i.id === existing.id ? ... : i)
appendInbound(prev, existingId, content, channel, t) ==
    [k \in 1..Len(prev) |->
        IF prev[k].id = existingId
        THEN [prev[k] EXCEPT
                !.status = "ENGAGED",
                !.chatHistory = Append(@,
                    NewMessage(MessageId("wh-", t), content.v, "importer",
                               IF channel = "WhatsApp" THEN WHATSAPP ELSE WECHAT,
                               DELIVERED)),
                !.activityLog = Append(@, <<"Incoming", channel, "message">>)]
        ELSE prev[k]]

Hook(channel, payload, outcome, lead) ==
    [channel |-> channel, payload |-> payload, outcome |-> outcome, lead |-> lead]

\* onWebhookPayload creating a lead for a contact it does not find.
onWebhookPayload_createsLead(channel, payload) ==
    LET x == extract(channel, payload)
        found == IF x.threw \/ ~(Truthy(x.content) /\ Truthy(x.contact)) THEN 0
                 ELSE findExisting(importers, x.contact)
    IN  /\ Operation
        /\ Len(hooks) < MaxHooks
        /\ IF x.threw \/ found = -1
           THEN /\ hooks' = Append(hooks, Hook(channel, payload, "threw", null))
                /\ UNCHANGED <<importers, enrolled, stampUsed>>
           ELSE IF ~(Truthy(x.content) /\ Truthy(x.contact))
           THEN /\ hooks' = Append(hooks, Hook(channel, payload, "dropped", null))
                /\ UNCHANGED <<importers, enrolled, stampUsed>>
           ELSE IF found = 0
           THEN /\ hooks' = Append(hooks, Hook(channel, payload, "unmatched", null))
                /\ importers' = Append(importers,
                        [id |-> x.contact.v, contactDetail |-> x.contact.v,
                         status |-> "PENDING", chatHistory |-> <<>>,
                         activityLog |-> <<>>, preferredChannel |-> WHATSAPP])
                /\ UNCHANGED <<enrolled, stampUsed>>
           ELSE /\ hooks' = Append(hooks, Hook(channel, payload, "matched",
                                               importers[found].id))
                /\ enrolled' = stopEnrollment(enrolled, importers[found].id)
                /\ importers' = appendInbound(importers, importers[found].id,
                                              x.content, channel, now)
                /\ stampUsed' = TRUE
        /\ UNCHANGED <<listenerVars, sends, replies, selectedId, importerTypingMap, now,
                       posts>>

\* window.electronAPI.onWebhookPayload((_event, { channel, payload, timestamp }) => ...)
onWebhookPayload(channel, payload) ==
    LET x == extract(channel, payload)
        found == IF x.threw \/ ~(Truthy(x.content) /\ Truthy(x.contact)) THEN 0
                 ELSE findExisting(importers, x.contact)
    IN  /\ Operation
        /\ Len(hooks) < MaxHooks
        /\ IF x.threw \/ found = -1
           THEN /\ hooks' = Append(hooks, Hook(channel, payload, "threw", null))
                /\ UNCHANGED <<importers, enrolled, stampUsed>>
           ELSE IF ~(Truthy(x.content) /\ Truthy(x.contact))
           THEN /\ hooks' = Append(hooks, Hook(channel, payload, "dropped", null))
                /\ UNCHANGED <<importers, enrolled, stampUsed>>
           ELSE IF found = 0
           THEN /\ hooks' = Append(hooks, Hook(channel, payload, "unmatched", null))
                /\ UNCHANGED <<importers, enrolled, stampUsed>>
           ELSE /\ hooks' = Append(hooks, Hook(channel, payload, "matched",
                                               importers[found].id))
                /\ enrolled' = stopEnrollment(enrolled, importers[found].id)
                /\ importers' = appendInbound(importers, importers[found].id,
                                              x.content, channel, now)
                /\ stampUsed' = TRUE
        /\ UNCHANGED <<listenerVars, sends, replies, selectedId, importerTypingMap, now,
                       posts>>

(* ------------------------- the application ---------------------------- *)
Lead(id, contactDetail, status, chatHistory, activityLog, preferredChannel) ==
    [id |-> id, contactDetail |-> contactDetail, status |-> status,
     chatHistory |-> chatHistory, activityLog |-> activityLog,
     preferredChannel |-> preferredChannel]

MOCK_IMPORTERS ==
    << Lead("1", "+64 21 123 4567", "PENDING", <<>>,
            << <<"Lead created manually">> >>, WHATSAPP),
       Lead("2", "sarah.j@eurofoods.de", "ENGAGED",
            << NewMessage(MessageId("m", 1), "Hi", "agent", EMAIL, READ) >>,
            << <<"Lead imported">> >>, EMAIL) >>

\* The callbacks of the Messaging Listeners effect.  Only the one for
\* incoming messages reads what its closure captured (selectedId).
MessagingListenersEffect(sel) ==
    /\ onMessageStatusUpdate(AppHandler(null))
    /\ onTypingStatus(AppHandler(null))
    /\ onIncomingMessage(AppHandler(sel))

\* importers.find(i => i.id === selectedId)
findById(prev, id) ==
    IF \E k \in 1..Len(prev) : prev[k].id = id
    THEN Min({k \in 1..Len(prev) : prev[k].id = id})
    ELSE 0

\* App's sendMessage(importer, content, channel), up to the await.
sendMessage(importer, content, channel) ==
    LET msg == NewMessage(MessageId("", now), content, "agent", channel, SENDING)
    IN  /\ importers' = addMessage(importers, importer.id, msg, "agent", channel)
        /\ stampUsed' = TRUE
        /\ MessagingService_sendMessage(msg.id, channel, "app", importer.id)

handleManualSend(text, channel) ==
    /\ Operation
    /\ Len(sends) < MaxSends
    /\ ~Falsy(selectedId)
    /\ findById(importers, selectedId) # 0
    /\ sendMessage(importers[findById(importers, selectedId)], text, channel)
    /\ UNCHANGED <<listenerVars, replies, selectedId, importerTypingMap, enrolled,
                   hooks, posts, now>>

\* handleSimulateResponse, from the reply simulateImporterResponse returns
handleSimulateResponse(reply) ==
    /\ Operation
    /\ Len(replies) < MaxReplies
    /\ ~Falsy(selectedId)
    /\ findById(importers, selectedId) # 0
    /\ LET importer == importers[findById(importers, selectedId)]
       IN  receiveMockReply(importer.id, reply, importer.preferredChannel)
    /\ UNCHANGED <<listenerVars, sends, importers, selectedId, enrolled, hooks, posts,
                   clockVars>>

\* ImporterList's onSelect (setSelectedId) and ChatInterface's onBack
\* (setSelectedId(null)); the effect follows the change of selectedId.
onSelect(id) ==
    /\ Operation
    /\ id # selectedId
    /\ selectedId' = id
    /\ MessagingListenersEffect(id)
    /\ UNCHANGED <<sends, replies, importers, importerTypingMap, enrolled, hooks, posts,
                   clockVars>>

\* handleDataRestore clearing the timers of the sends in flight.
handleDataRestore_cancels(restoredImporters) ==
    /\ Operation
    /\ importers # restoredImporters
    /\ importers' = restoredImporters
    /\ selectedId' = IF Len(restoredImporters) > 0 THEN restoredImporters[1].id
                     ELSE selectedId
    /\ MessagingListenersEffect(selectedId')
    /\ sends' = [c \in 1..Len(sends) |->
                    IF sendPending(c) THEN [sends[c] EXCEPT !.pc = "done"]
                    ELSE sends[c]]
    /\ UNCHANGED <<replies, importerTypingMap, enrolled, hooks, posts, clockVars>>

handleDataRestore(restoredImporters) ==
    /\ Operation
    /\ importers # restoredImporters
    /\ importers' = restoredImporters
    /\ selectedId' = IF Len(restoredImporters) > 0 THEN restoredImporters[1].id
                     ELSE selectedId
    /\ MessagingListenersEffect(selectedId')
    /\ UNCHANGED <<sends, replies, importerTypingMap, enrolled, hooks, posts, clockVars>>

\* The application once mounted: the store loaded, the handlers registered.
Init ==
    /\ statusListener = AppHandler(null) /\ statusReg = AppHandler(null)
    /\ typingListener = AppHandler(null) /\ typingReg = AppHandler(null)
    /\ incomingListener = AppHandler(null) /\ incomingReg = AppHandler(null)
    /\ sends = <<>> /\ replies = <<>>
    /\ importers = MOCK_IMPORTERS /\ selectedId = null
    /\ importerTypingMap = <<>> /\ enrolled = {"1"}
    /\ hooks = <<>> /\ posts = <<>>
    /\ now = 2 /\ stampUsed = FALSE
    /\ ops = 0

SendTexts == {"Hello"}
SendChannels == {WHATSAPP, EMAIL}
ReplyTexts == {"ok"}
RestoreStores == {MOCK_IMPORTERS}
LeadIds == {"1", "2"}
Payloads ==
    { Obj([Content |-> Str("ok"), FromUserName |-> Str("sarah.j")]),
      Obj([message |-> Str("Hi"), from |-> Str("15558675309")]) }

Timers ==
    \/ \E c \in 1..MaxSends : latencyRejected(c)
    \/ \E c \in 1..MaxSends : latencyAccepted(c)
    \/ \E c \in 1..MaxSends : \E d \in readDelays : deliveryTimer(c, TRUE, d)
    \/ \E c \in 1..MaxSends : deliveryTimer(c, FALSE, 0)
    \/ \E c \in 1..MaxSends : readTimer(c)
    \/ \E r \in 1..MaxReplies : mockReplyTimer(r)
    \/ \E d \in 0..59 : Advance(d)

Next ==
    \/ \E t \in SendTexts, ch \in SendChannels : handleManualSend(t, ch)
    \/ \E t \in ReplyTexts : handleSimulateResponse(t)
    \/ \E id \in LeadIds \cup {null} : onSelect(id)
    \/ \E st \in RestoreStores : handleDataRestore(st)
    \/ \E ch \in {"WhatsApp", "WeChat"}, p \in Payloads : onWebhookPayload(ch, p)
    \/ Timers

Spec == Init /\ [][Next]_vars

\* The timers fire when they are due.
FairSpec == Spec /\ WF_vars(Timers)

(* ---------------------- the webhook handler alone --------------------- *)
\* The application with a store loaded from StorageService.loadImporters
\* and the webhook transport delivering payloads.
msg0 == "entry[0].changes[0].value.messages[0]"

WhatsAppMessage(fields) == Obj(msg0 :> Obj(fields))

SavedLead(id, contactDetail) ==
    Lead(id, contactDetail, "PENDING", <<>>, << <<"Lead imported">> >>, WHATSAPP)

SavedStores ==
    { MOCK_IMPORTERS,
      << SavedLead("1", "+1 (555) 867-5309"), SavedLead("2", "wx_123"),
         SavedLead("3", "15558675309") >>,
      << SavedLead("1", "wx_12"), SavedLead("2", "5309"),
         SavedLead("3", "15558675309") >>,
      << SavedLead("1", "wx_123"), SavedLead("2", "+1 (555) 867-5309") >>,
      << SavedLead("1", "wx_12"), SavedLead("2", "wx_123") >> }

\* Payloads without the fields the handler expects, or with a content or
\* a contact that is no string.
MalformedPayloads ==
    { Null, Undef, Obj(<<>>),
      WhatsAppMessage([text |-> Obj([body |-> Str("Hi")])]),
      Obj([message |-> Num("7"), from |-> Str("15558675309")]),
      Obj([Content |-> Str("ok"), FromUserName |-> Num("42")]) }

HookPayloads ==
    MalformedPayloads \cup
    { WhatsAppMessage([text |-> Obj([body |-> Str("Hi")]), from |-> Str("15558675309")]),
      WhatsAppMessage([from |-> Str("8675309")]),
      Obj([message |-> Str("Hi"), from |-> Str("+1 (555) 867-5309")]),
      Obj([message |-> Str("Hi"), from |-> Str("")]),
      Obj([Content |-> Str("ok"), FromUserName |-> Str("wx_123")]),
      Obj([Content |-> Str("ok"), FromUserName |-> Str("wx_999")]) }

HookInit ==
    /\ statusListener = AppHandler(null) /\ statusReg = AppHandler(null)
    /\ typingListener = AppHandler(null) /\ typingReg = AppHandler(null)
    /\ incomingListener = AppHandler(null) /\ incomingReg = AppHandler(null)
    /\ sends = <<>> /\ replies = <<>>
    /\ importers \in SavedStores /\ selectedId = null
    /\ importerTypingMap = <<>> /\ enrolled = {"1", "2"}
    /\ hooks = <<>> /\ posts = <<>>
    /\ now = 2 /\ stampUsed = FALSE
    /\ ops = 0

HookNext ==
    \/ \E ch \in {"WhatsApp", "WeChat"}, p \in HookPayloads : onWebhookPayload(ch, p)
    \/ \E d \in 0..59 : Advance(d)

HookSpec == HookInit /\ [][HookNext]_vars

(* ------------------- the shapes of a WhatsApp payload ----------------- *)
\* WhatsApp payloads with the nested shape, the fallback shape, both or
\* neither, complete or not.
ShapePayloads ==
    { WhatsAppMessage([text |-> Obj([body |-> Str("Hi")]), from |-> Str("15558675309")]),
      WhatsAppMessage([text |-> Obj([body |-> Str("")]), from |-> Str("5309")]),
      WhatsAppMessage([from |-> Str("8675309")]),
      WhatsAppMessage([text |-> Obj([body |-> Str("Hi")])]),
      Obj([message |-> Str("Hi"), from |-> Str("+1 (555) 867-5309")]),
      Obj([message |-> Str("Hi"), from |-> Str("")]),
      Obj((msg0 :> Obj([text |-> Obj([body |-> Str("Hi")]), from |-> Str("15558675309")]))
          @@ [message |-> Str("Yo"), from |-> Str("wx_123")]),
      Obj((msg0 :> Obj([text |-> Obj([body |-> Str("Hi")])]))
          @@ [message |-> Str("Yo"), from |-> Str("wx_123")]),
      Obj(<<>>) }

ShapeNext ==
    \/ \E p \in ShapePayloads : onWebhookPayload("WhatsApp", p)
    \/ \E d \in 0..59 : Advance(d)

ShapeSpec == HookInit /\ [][ShapeNext]_vars

(* ------------------------ the webhook server -------------------------- *)
\* The Express routes of the main process, the IPC channel
\* 'webhook-payload' and the handler of the window.
\* `if (mainWindow)`: createWindow assigns mainWindow before it starts the
\* server and nothing clears it.
mainWindow == TRUE

Post(route, channel, body, status, sent) ==
    [route |-> route, channel |-> channel, body |-> body, status |-> status,
     sent |-> sent, timestamp |-> now]

\* appServer.post('/webhooks/whatsapp', ...), req.body as express.json() left it
postWhatsapp(body) ==
    /\ Operation
    /\ Len(posts) < MaxHooks
    /\ posts' = Append(posts,
            IF Truthy(Get(body, "object"))
            THEN Post("/webhooks/whatsapp", "WhatsApp", body, 200, mainWindow)
            ELSE Post("/webhooks/whatsapp", "WhatsApp", body, 404, FALSE))
    /\ UNCHANGED <<listenerVars, sends, replies, importers, selectedId,
                   importerTypingMap, enrolled, hooks, clockVars>>

\* postWechat sending its payload under the tag of the other route.
postWechat_tagsWhatsApp(body) ==
    /\ Operation
    /\ Len(posts) < MaxHooks
    /\ posts' = Append(posts, Post("/webhooks/wechat", "WhatsApp", body, 200, mainWindow))
    /\ UNCHANGED <<listenerVars, sends, replies, importers, selectedId,
                   importerTypingMap, enrolled, hooks, clockVars>>

\* appServer.post('/webhooks/wechat', ...)
postWechat(body) ==
    /\ Operation
    /\ Len(posts) < MaxHooks
    /\ posts' = Append(posts, Post("/webhooks/wechat", "WeChat", body, 200, mainWindow))
    /\ UNCHANGED <<listenerVars, sends, replies, importers, selectedId,
                   importerTypingMap, enrolled, hooks, clockVars>>

\* mainWindow.webContents.send('webhook-payload', ...): the messages sent
\* and not yet handled by the window, in order.
forwarded == SelectSeq(posts, LAMBDA p : p.sent)

\* The window receives the next 'webhook-payload' message.
webhookPayloadEvent ==
    /\ Len(hooks) < Len(forwarded)
    /\ onWebhookPayload(forwarded[Len(hooks) + 1].channel, forwarded[Len(hooks) + 1].body)

PostBodies ==
    { Obj(("object" :> Str("whatsapp_business_account"))
          @@ (msg0 :> Obj([text |-> Obj([body |-> Str("Hi")]),
                           from |-> Str("15558675309")]))),
      WhatsAppMessage([text |-> Obj([body |-> Str("Hi")]), from |-> Str("15558675309")]),
      Obj([object |-> Str("page"), message |-> Str("Hi"), from |-> Num("15558675309")]),
      Obj([Content |-> Str("ok"), FromUserName |-> Str("wx_123")]),
      Obj([Content |-> Str("ok"), FromUserName |-> Num("42")]),
      Obj(<<>>) }

ServerNext ==
    \/ \E b \in PostBodies : postWhatsapp(b)
    \/ \E b \in PostBodies : postWechat(b)
    \/ webhookPayloadEvent
    \/ \E d \in 0..59 : Advance(d)

ServerSpec == HookInit /\ [][ServerNext]_vars

\* The window's handler takes whatever arrives on 'webhook-payload': beside
\* the two routes, a message whose channel is neither of theirs.
ForeignChannels == {"Telegram", "whatsapp"}

foreignPayload(channel, body) ==
    /\ Operation
    /\ Len(posts) < MaxHooks
    /\ posts' = Append(posts, Post("", channel, body, 0, TRUE))
    /\ UNCHANGED <<listenerVars, sends, replies, importers, selectedId,
                   importerTypingMap, enrolled, hooks, clockVars>>

TransportNext ==
    \/ \E b \in PostBodies : postWhatsapp(b)
    \/ \E b \in PostBodies : postWechat(b)
    \/ \E ch \in ForeignChannels, b \in PostBodies : foreignPayload(ch, b)
    \/ webhookPayloadEvent
    \/ \E d \in 0..59 : Advance(d)

TransportSpec == HookInit /\ [][TransportNext]_vars

(* -------------- MessagingService under an arbitrary caller ------------ *)
\* The module as loaded: no handler registered, nothing sent.  The caller
\* registers handlers, sends and injects mock replies in any order.
\* The caller's message ids, numbered in the order of their first use.
ClientIds == {MessageId("", k) : k \in 1..(Len(sends) + 1)}
ClientLeads == {"1"}
ClientChannels == {WHATSAPP, EMAIL}
ReplyContents == {"ok"}

SvcInit ==
    /\ statusListener = NoHandler /\ typingListener = NoHandler
    /\ incomingListener = NoHandler
    /\ statusReg = NoHandler /\ typingReg = NoHandler /\ incomingReg = NoHandler
    /\ sends = <<>> /\ replies = <<>>
    /\ importers = <<>> /\ selectedId = null
    /\ importerTypingMap = <<>> /\ enrolled = {}
    /\ hooks = <<>> /\ posts = <<>>
    /\ now = 1 /\ stampUsed = FALSE
    /\ ops = 0

ClientSend(messageId, channel) ==
    /\ Operation
    /\ Len(sends) < MaxSends
    /\ MessagingService_sendMessage(messageId, channel, "client", null)
    /\ UNCHANGED <<listenerVars, replies, importers, selectedId, importerTypingMap,
                   enrolled, hooks, posts, clockVars>>

ClientRegisterStatus(h) ==
    /\ Operation
    /\ onMessageStatusUpdate(ClientHandler(h))
    /\ UNCHANGED <<typingListener, typingReg, incomingListener, incomingReg, sends,
                   replies, importers, selectedId, importerTypingMap, enrolled,
                   hooks, posts, clockVars>>

ClientRegisterTyping(h) ==
    /\ Operation
    /\ onTypingStatus(ClientHandler(h))
    /\ UNCHANGED <<statusListener, statusReg, incomingListener, incomingReg, sends,
                   replies, importers, selectedId, importerTypingMap, enrolled,
                   hooks, posts, clockVars>>

ClientRegisterIncoming(h) ==
    /\ Operation
    /\ onIncomingMessage(ClientHandler(h))
    /\ UNCHANGED <<statusListener, statusReg, typingListener, typingReg, sends,
                   replies, importers, selectedId, importerTypingMap, enrolled,
                   hooks, posts, clockVars>>

ClientMockReply(importerId, content, channel) ==
    /\ Operation
    /\ Len(replies) < MaxReplies
    /\ receiveMockReply(importerId, content, channel)
    /\ UNCHANGED <<listenerVars, sends, importers, selectedId, enrolled, hooks, posts,
                   clockVars>>

SvcNext ==
    \/ \E m \in ClientIds, ch \in ClientChannels : ClientSend(m, ch)
    \/ \E h \in Handlers : ClientRegisterStatus(h)
    \/ ClientRegisterTyping("h1")
    \/ ClientRegisterIncoming("h1")
    \/ \E i \in ClientLeads, t \in ReplyContents : ClientMockReply(i, t, WECHAT)
    \/ Timers

SvcSpec == SvcInit /\ [][SvcNext]_vars

(* ------------ MessagingService and a store it could reach ------------- *)
\* A caller that has created its Messages (status SENDING), as addMessage
\* does, and sends them with no status handler, with a handler of its own
\* or with the handler of the application registered.
SimStore ==
    << Lead("1", "+64 21 123 4567", "PENDING",
            << NewMessage(MessageId("", 1), "Hello", "agent", WHATSAPP, SENDING),
               NewMessage(MessageId("", 2), "Hello", "agent", WHATSAPP, SENDING) >>,
            << <<"Lead created manually">> >>, WHATSAPP) >>

SimInit ==
    /\ statusListener = NoHandler /\ typingListener = NoHandler
    /\ incomingListener = NoHandler
    /\ statusReg = NoHandler /\ typingReg = NoHandler /\ incomingReg = NoHandler
    /\ sends = <<>> /\ replies = <<>>
    /\ importers = SimStore /\ selectedId = null
    /\ importerTypingMap = <<>> /\ enrolled = {}
    /\ hooks = <<>> /\ posts = <<>>
    /\ now = 1 /\ stampUsed = FALSE
    /\ ops = 0

AppRegisterStatus ==
    /\ Operation
    /\ statusListener # AppHandler(null)
    /\ onMessageStatusUpdate(AppHandler(null))
    /\ UNCHANGED <<typingListener, typingReg, incomingListener, incomingReg, sends,
                   replies, importers, selectedId, importerTypingMap, enrolled,
                   hooks, posts, clockVars>>

SimNext ==
    \/ \E m \in ClientIds, ch \in ClientChannels : ClientSend(m, ch)
    \/ ClientRegisterStatus("h1")
    \/ AppRegisterStatus
    \/ \E c \in 1..MaxSends : latencyRejected(c)
    \/ \E c \in 1..MaxSends : latencyAccepted(c)
    \/ \E c \in 1..MaxSends : \E d \in readDelays : deliveryTimer(c, TRUE, d)
    \/ \E c \in 1..MaxSends : deliveryTimer(c, FALSE, 0)
    \/ \E c \in 1..MaxSends : readTimer(c)
    \/ \E d \in 0..59 : Advance(d)

SimSpec == SimInit /\ [][SimNext]_vars

(* ------------------- mock replies that overlap ------------------------ *)
\* The application with simulated replies asked for while earlier ones are
\* still typing: a short reply (typing 1060 ms) and a long one (2200 ms), so
\* that the timers fire in the order of the calls or in the other.
MaxOverlap == 3

OverlapTexts == {"ok", "Thank you, please send the price list."}

\* handleSimulateResponse, from the reply simulateImporterResponse returns
simulateResponse(reply) ==
    /\ Operation
    /\ Len(replies) < MaxOverlap
    /\ ~Falsy(selectedId)
    /\ findById(importers, selectedId) # 0
    /\ LET importer == importers[findById(importers, selectedId)]
       IN  receiveMockReply(importer.id, reply, importer.preferredChannel)
    /\ UNCHANGED <<listenerVars, sends, importers, selectedId, enrolled, hooks, posts,
                   clockVars>>

TypingNext ==
    \/ \E t \in OverlapTexts : simulateResponse(t)
    \/ \E id \in LeadIds \cup {null} : onSelect(id)
    \/ \E r \in 1..MaxOverlap : mockReplyTimer(r)
    \/ \E d \in 0..59 : Advance(d)

TypingSpec == Init /\ [][TypingNext]_vars

(* ---------------- inbound messages from any caller ------------------- *)
\* The application beside a caller of receiveMockReply that names a lead or
\* names none (importerId: string, '' included; null as the handler's type
\* IncomingHandler allows).
InboundIds == {"1", "2", "", null}

InboundNext ==
    \/ \E i \in InboundIds, ch \in {WHATSAPP, WECHAT} : ClientMockReply(i, "ok", ch)
    \/ \E id \in LeadIds \cup {null} : onSelect(id)
    \/ \E r \in 1..MaxReplies : mockReplyTimer(r)
    \/ \E d \in 0..59 : Advance(d)

InboundSpec == Init /\ [][InboundNext]_vars

(* ------------- MessagingService, a send on every channel -------------- *)
\* channel: Channel, every variant of the enumeration
AllChannels == {WHATSAPP, WECHAT, EMAIL}

ChannelNext ==
    \/ \E m \in ClientIds, ch \in AllChannels : ClientSend(m, ch)
    \/ ClientRegisterStatus(ClientHandler("h1"))
    \/ \E c \in 1..MaxSends : latencyRejected(c)
    \/ \E c \in 1..MaxSends : latencyAccepted(c)
    \/ \E c \in 1..MaxSends : \E d \in readDelays : deliveryTimer(c, TRUE, d)
    \/ \E c \in 1..MaxSends : deliveryTimer(c, FALSE, 0)
    \/ \E c \in 1..MaxSends : readTimer(c)
    \/ \E d \in 0..59 : Advance(d)

ChannelSpec == SvcInit /\ [][ChannelNext]_vars

(* ===================== the claims, MessagingService =================== *)
statuses(c) == [j \in 1..Len(sends[c].emitted) |-> sends[c].emitted[j].status]
hasEmitted(c, status) == \E j \in 1..Len(sends[c].emitted) : sends[c].emitted[j].status = status

\* C1: the emissions of a sendMessage call come in the order SENT, DELIVERED,
\* READ: when the call has emitted DELIVERED it emitted SENT before, and when
\* it has emitted READ it emitted DELIVERED before, whatever other sends are
\* in flight.
C1_StatusOrder ==
    \A c \in 1..Len(sends) : \A j \in 1..Len(sends[c].emitted) :
        /\ statuses(c)[j] = DELIVERED => \E i \in 1..(j - 1) : statuses(c)[i] = SENT
        /\ statuses(c)[j] = READ => \E i \in 1..(j - 1) : statuses(c)[i] = DELIVERED
        /\ statuses(c)[j] = SENT => j = 1

C1_Witness ==
    \E c, d \in 1..Len(sends) :
        /\ c # d
        /\ statuses(c) = <<SENT, DELIVERED, READ>>
        /\ sends[d].pc = "read"

\* C5: a rejected call has returned {success: false, error: 'Gateway Timeout'},
\* has emitted no status and has no timer pending; being an invariant, this
\* holds at every later time.
C5_RejectedEmitsNothing ==
    \A c \in 1..Len(sends) :
        sends[c].pc = "rejected" =>
            /\ sends[c].result = GatewayTimeout
            /\ sends[c].emitted = <<>>
            /\ ~sendPending(c)

C5_Witness ==
    \E c, d \in 1..Len(sends) :
        /\ c < d
        /\ sends[c].pc = "rejected"
        /\ statuses(d) = <<SENT, DELIVERED, READ>>

\* C6: a call emits each of SENT, DELIVERED, READ at most once, and it has
\* one outcome: a call that returned a failure has emitted nothing, a call
\* that has emitted something returned success.
C6_AtMostOnce ==
    \A c \in 1..Len(sends) :
        /\ \A i, j \in 1..Len(sends[c].emitted) : i # j => statuses(c)[i] # statuses(c)[j]
        /\ sends[c].emitted # <<>> => sends[c].result = Success
        /\ sends[c].result = GatewayTimeout => sends[c].pc = "rejected"

C6_Witness ==
    \E c, d \in 1..Len(sends) :
        /\ Len(sends[c].emitted) = 3 /\ sends[c].pc = "done"
        /\ sends[d].result = GatewayTimeout

\* The emissions call c makes in the step.
newEmissions(c) ==
    LET old == IF c <= Len(sends) THEN Len(sends[c].emitted) ELSE 0
    IN  {sends'[c].emitted[j] : j \in (old + 1)..Len(sends'[c].emitted)}

\* C8: every status emission goes to the handler last passed to
\* onMessageStatusUpdate, and to no other, also when the timer that makes it
\* was set while an earlier handler was registered.
C8_LastRegisteredReceives ==
    [][\A c \in 1..Len(sends') : \A e \in newEmissions(c) : e.to = statusReg]_vars

C8_Witness ==
    \E c \in 1..Len(sends) :
        /\ Len(sends[c].emitted) >= 2
        /\ sends[c].emitted[1].to = ClientHandler("h1")
        /\ sends[c].emitted[2].to = ClientHandler("h2")

\* C9: an event emitted while no handler of its kind is registered is
\* dropped for good: the call emits it to no handler later on (no queue, no
\* retry), for status updates, typing indicators and inbound messages.
C9_DroppedForGood ==
    /\ \A c \in 1..Len(sends) : \A i, j \in 1..Len(sends[c].emitted) :
            (i < j /\ sends[c].emitted[i].to = NoHandler)
                => sends[c].emitted[j].status # sends[c].emitted[i].status
    /\ \A r \in 1..Len(replies) : \A i, j \in 1..Len(replies[r].events) :
            (i < j /\ replies[r].events[i].to = NoHandler)
                => ~(/\ replies[r].events[j].kind = replies[r].events[i].kind
                     /\ replies[r].events[j].args = replies[r].events[i].args)
    /\ \A c \in 1..Len(sends) : Len(sends[c].emitted) <= 3
    /\ \A r \in 1..Len(replies) : Len(replies[r].events) <= 3

C9_Witness ==
    /\ \E c \in 1..Len(sends) :
            /\ sends[c].pc = "done"
            /\ sends[c].emitted[1].to = NoHandler
            /\ sends[c].emitted[2].to # NoHandler
    /\ \E r \in 1..Len(replies) :
            /\ replies[r].pc = "done"
            /\ replies[r].events[3].to = NoHandler

\* C19: MessagingService.sendMessage changes the store only through the
\* registered status handler: a step changes the leads only by the handler
\* of the application applied to an emission of that step, so with no
\* status handler registered a send, accepted or rejected, changes nothing.
C19_StoreOnlyThroughHandler ==
    [][/\ (statusListener = NoHandler \/ statusListener.owner = "client")
            => importers' = importers
       /\ importers' # importers =>
            \E c \in 1..Len(sends) : \E e \in newEmissions(c) :
                /\ e.to = statusListener
                /\ importers' = statusUpdateHandler(importers, sends[c].id, e.status)]_vars

C19_Witness ==
    \E c \in 1..Len(sends) :
        /\ sends[c].result = Success
        /\ hasEmitted(c, DELIVERED)
        /\ \A j \in 1..Len(sends[c].emitted) : sends[c].emitted[j].to = NoHandler
        /\ \E k \in 1..Len(importers) : \E j \in 1..Len(importers[k].chatHistory) :
              /\ importers[k].chatHistory[j].id = sends[c].id
              /\ importers[k].chatHistory[j].status = SENDING
        /\ \E d \in 1..Len(sends) : sends[d].result = GatewayTimeout

\* C23: the status timers of two sends race, each on its own delays: a send
\* made later can get DELIVERED before an earlier one that is still on its
\* way (an email followed by an instant message: the witness), so status
\* delivery is not FIFO across messages; the order follows the delays, and
\* the only overtaking that cannot happen is an email sent later passing an
\* instant message sent earlier.
C23_TimersRaceOnTheirDelays ==
    \A c, d \in 1..Len(sends) :
        (/\ c < d
         /\ sends[c].channel # EMAIL /\ sends[d].channel = EMAIL
         /\ sends[c].pc # "rejected"
         /\ hasEmitted(d, DELIVERED))
            => hasEmitted(c, DELIVERED)

C23_Witness ==
    \E c, d \in 1..Len(sends) :
        /\ c < d
        /\ sends[c].channel = EMAIL /\ sends[d].channel = WHATSAPP
        /\ sends[c].result = Success /\ sends[c].pc = "delivery"
        /\ ~hasEmitted(c, DELIVERED)
        /\ hasEmitted(d, DELIVERED)
        /\ sends[d].emitted[2].to # NoHandler

\* The timers the step arms: the latency timer of a call just made, the
\* delivery timer of a call just accepted.
latencyArmed(c) == c > Len(sends) /\ c <= Len(sends')
deliveryArmed(c) == c <= Len(sends) /\ sends[c].pc = "latency" /\ sends'[c].pc = "delivery"

InstantChannels == {WHATSAPP, WECHAT}

\* C25: for every send, the latency to SENT and the delivery delay of an
\* email are each strictly greater than those of a WhatsApp and of a WeChat
\* send: the timer armed for an email is longer than the one any instant
\* channel gets, and the timer armed for an instant channel is shorter
\* than the email's.
C25_EmailIsSlower ==
    [][\A c \in 1..Len(sends') :
          /\ latencyArmed(c) =>
                IF sends'[c].channel = EMAIL
                THEN \A ch \in InstantChannels : sends'[c].rem > latency(ch)
                ELSE sends'[c].rem < latency(EMAIL)
          /\ deliveryArmed(c) =>
                IF sends'[c].channel = EMAIL
                THEN \A ch \in InstantChannels : sends'[c].rem > deliveryDelay(ch)
                ELSE sends'[c].rem < deliveryDelay(EMAIL)]_vars

C25_Witness ==
    \E c, d \in 1..Len(sends) :
        /\ sends[c].channel = EMAIL /\ sends[d].channel = WECHAT
        /\ sends[c].pc = "delivery" /\ sends[c].rem = 30
        /\ hasEmitted(d, SENT)

\* The step in which the caller of call c gets {success: true}.
resolvedNow(c) == sends[c].result = NoResult /\ sends'[c].result = Success

\* C26: at the moment sendMessage resolves with {success: true} the call
\* has made exactly one emission, SENT, to the handler then registered (to
\* none if none is registered: the emission is dropped), and DELIVERED is
\* still to come, its timer pending with a positive delay; so a call seen
\* as successful has always emitted SENT first.
C26_SentBeforeResolve ==
    /\ [][\A c \in 1..Len(sends) : resolvedNow(c) =>
              /\ sends'[c].emitted = <<Emission(SENT, statusReg)>>
              /\ sends'[c].pc = "delivery" /\ sends'[c].rem > 0]_vars
    /\ [](\A c \in 1..Len(sends) : sends[c].result = Success =>
              (sends[c].emitted # <<>> /\ sends[c].emitted[1].status = SENT))

C26_Witness ==
    \E c, d \in 1..Len(sends) :
        /\ sends[c].result = Success /\ sends[c].emitted[1] = Emission(SENT, NoHandler)
        /\ sends[d].result = Success /\ sends[d].pc = "delivery"
        /\ sends[d].rem = deliveryDelay(sends[d].channel)
        /\ sends[d].emitted = <<Emission(SENT, ClientHandler("h1"))>>

\* The events reply r makes in the step.
newEvents(r) ==
    LET old == IF r <= Len(replies) THEN Len(replies[r].events) ELSE 0
    IN  {replies'[r].events[j] : j \in (old + 1)..Len(replies'[r].events)}

\* C31: the three handler slots are independent. A step that changes the
\* handler of one kind (status update, typing indicator, inbound message)
\* leaves the handlers of the two other kinds as they were, and every
\* emission goes to the slot of its own kind: a status emission to the
\* status handler, a typing indicator to the typing handler, an inbound
\* message to the incoming handler.
C31_SlotsIndependent ==
    [][/\ statusListener' # statusListener
            => (typingListener' = typingListener /\ incomingListener' = incomingListener)
       /\ typingListener' # typingListener
            => (statusListener' = statusListener /\ incomingListener' = incomingListener)
       /\ incomingListener' # incomingListener
            => (statusListener' = statusListener /\ typingListener' = typingListener)
       /\ \A c \in 1..Len(sends') : \A e \in newEmissions(c) : e.to = statusListener
       /\ \A r \in 1..Len(replies') : \A e \in newEvents(r) :
            /\ e.kind = "typing" => e.to = typingListener
            /\ e.kind = "incoming" => e.to = incomingListener]_vars

C31_Witness ==
    /\ statusListener = ClientHandler("h2")
    /\ typingListener = ClientHandler("h1")
    /\ incomingListener = NoHandler
    /\ \E r \in 1..Len(replies) :
          /\ Len(replies[r].events) = 3
          /\ replies[r].events[1].to = ClientHandler("h1")
          /\ replies[r].events[3].kind = "incoming"
          /\ replies[r].events[3].to = NoHandler
    /\ \E c \in 1..Len(sends) :
          sends[c].emitted # <<>> /\ sends[c].emitted[1].to = ClientHandler("h2")

\* C32: a handler slot never returns to empty. Once a handler of a kind is
\* registered, every later state has a handler of that kind, whatever is
\* registered again and however often, and no event of that kind emitted
\* from then on is dropped.
C32_SlotNeverEmptied ==
    [][/\ statusListener # NoHandler =>
            /\ statusListener' # NoHandler
            /\ \A c \in 1..Len(sends') : \A e \in newEmissions(c) : e.to # NoHandler
       /\ typingListener # NoHandler =>
            /\ typingListener' # NoHandler
            /\ \A r \in 1..Len(replies') : \A e \in newEvents(r) :
                  e.kind = "typing" => e.to # NoHandler
       /\ incomingListener # NoHandler =>
            /\ incomingListener' # NoHandler
            /\ \A r \in 1..Len(replies') : \A e \in newEvents(r) :
                  e.kind = "incoming" => e.to # NoHandler]_vars

C32_Witness ==
    \E c \in 1..Len(sends) :
        /\ Len(sends[c].emitted) = 3
        /\ sends[c].emitted[1].to = NoHandler
        /\ sends[c].emitted[2].to = ClientHandler("h1")
        /\ sends[c].emitted[3].to = ClientHandler("h2")
        /\ statusListener = ClientHandler("h2")

\* The events a receiveMockReply call makes, in order, without their
\* addressees.
mockReplyEvents(rp) ==
    << [kind |-> "typing", args |-> [importerId |-> rp.importerId, isTyping |-> TRUE]],
       [kind |-> "typing", args |-> [importerId |-> rp.importerId, isTyping |-> FALSE]],
       [kind |-> "incoming", args |-> [importerId |-> rp.importerId,
                                       contact |-> "unknown-contact",
                                       content |-> rp.content,
                                       channel |-> rp.channel]] >>

\* C33: a receiveMockReply call makes its events in the order typing
\* started, typing stopped, inbound message: the first in the call, the two
\* others together when its timer fires (never one without the other), the
\* inbound message with the importerId, the content and the channel given
\* to the call; with handlers registered each event reaches its handler.
C33_MockReplyOrder ==
    \A r \in 1..Len(replies) :
        LET ev == replies[r].events
        IN  /\ Len(ev) = (IF replies[r].pc = "typing" THEN 1 ELSE 3)
            /\ \A j \in 1..Len(ev) :
                  /\ ev[j].kind = mockReplyEvents(replies[r])[j].kind
                  /\ ev[j].args = mockReplyEvents(replies[r])[j].args
                  /\ ev[j].to # NoHandler

C33_Witness ==
    \E r \in 1..Len(replies) :
        /\ replies[r].pc = "done"
        /\ replies[r].importerId = "2" /\ replies[r].channel = EMAIL
        /\ replies[r].events[3].to = AppHandler("2")
        /\ \E k \in 1..Len(importers) :
              /\ importers[k].id = "2"
              /\ importers[k].chatHistory[Len(importers[k].chatHistory)].sender = "importer"
              /\ importers[k].chatHistory[Len(importers[k].chatHistory)].channel = EMAIL

\* The typing flag the application shows for a lead: importerTypingMap[id],
\* undefined (not typing) for a lead that has no entry.
isTyping(id) == id \in DOMAIN importerTypingMap /\ importerTypingMap[id]

pendingFor(id) == {r \in 1..Len(replies) : replies[r].importerId = id /\ replyPending(r)}

\* C34: with the application's typing handler registered, a lead for which
\* no mock reply is pending (each receiveMockReply timer for it has fired)
\* is shown as not typing, however many replies overlapped and in whatever
\* order their timers fired.
C34_TypingEndsWhenRepliesEnd ==
    /\ typingListener # NoHandler
    /\ \A id \in LeadIds : pendingFor(id) = {} => ~isTyping(id)

C34_Witness ==
    \E k \in 1..Len(importers) : \E i, j \in 1..Len(importers[k].chatHistory) :
        /\ Len(replies) = 3
        /\ \A r \in 1..3 : replies[r].importerId = importers[k].id /\ replies[r].pc = "done"
        /\ Len(replies[1].content) > 2 /\ replies[2].content = "ok"
        /\ i < j
        /\ importers[k].chatHistory[i].content = "ok"
        /\ importers[k].chatHistory[j].content = replies[1].content
        /\ importers[k].id \in DOMAIN importerTypingMap
        /\ ~isTyping(importers[k].id)

(* ========================= the claims, the store ====================== *)
messageSlots ==
    UNION {{<<k, j>> : j \in 1..Len(importers[k].chatHistory)} : k \in 1..Len(importers)}

messageAt(p) == importers[p[1]].chatHistory[p[2]]

inStore(messageId) == \E p \in messageSlots : messageAt(p).id = messageId

StatusRank(st) ==
    CASE st = SENDING -> 1 [] st = SENT -> 2 [] st = DELIVERED -> 3 [] st = READ -> 4
      [] OTHER -> 0

Forward(a, b) ==
    \/ a = b
    \/ StatusRank(a) > 0 /\ StatusRank(b) > StatusRank(a)
    \/ a = SENDING /\ b = FAILED

\* C2: the stored status of a Message only moves forward along
\* SENDING < SENT < DELIVERED < READ, and FAILED is entered only from SENDING.
C2_StatusNeverRegresses ==
    [][\A k \in 1..Len(importers) : \A j \in 1..Len(importers[k].chatHistory) :
            (/\ k <= Len(importers')
             /\ importers'[k].id = importers[k].id
             /\ j <= Len(importers'[k].chatHistory)
             /\ importers'[k].chatHistory[j].id = importers[k].chatHistory[j].id)
            => Forward(importers[k].chatHistory[j].status,
                       importers'[k].chatHistory[j].status)]_vars

\* C3: no message id both receives a status emission (SENT, DELIVERED or
\* READ) and is marked FAILED by the application.
C3_FailedNeverWithSent ==
    \A c, d \in 1..Len(sends) :
        (sends[c].caller = "app" /\ sends[c].pc = "rejected" /\ sends[d].id = sends[c].id)
            => sends[d].emitted = <<>>

\* C4: no two Messages of the store, in one lead or in two, share an id.
C4_UniqueMessageIds ==
    \A p, q \in messageSlots : p # q => messageAt(p).id # messageAt(q).id

\* C7: there is no cancellation: every accepted send gets its DELIVERED
\* emission, whatever the user does in between (selecting another lead,
\* which registers the handlers again, sending again, restoring the store,
\* which removes the message), and the emission reaches the handler then
\* registered.
C7_DeliveredAlwaysFires ==
    /\ \A c \in 1..MaxSends :
            (c <= Len(sends) /\ sends[c].result = Success)
                ~> (c <= Len(sends) /\ hasEmitted(c, DELIVERED))
    /\ [](\A c \in 1..Len(sends) : \A j \in 1..Len(sends[c].emitted) :
            sends[c].emitted[j].to = statusReg)

C7_Witness ==
    \E c \in 1..Len(sends) :
        /\ hasEmitted(c, DELIVERED)
        /\ sends[c].pc = "read"
        /\ ~inStore(sends[c].id)
        /\ Len(sends) > c

\* C17: a status emission for a message id that no lead holds (the store
\* was replaced while the send was in flight) leaves the store as it was.
C17_AbsentIdIsNoOp ==
    [][\A c \in 1..Len(sends) :
            (newEmissions(c) # {} /\ ~inStore(sends[c].id)) => importers' = importers]_vars

C17_Witness ==
    \E c \in 1..Len(sends) :
        /\ sends[c].pc = "delivery"
        /\ sends[c].rem = deliveryDelay(sends[c].channel)
        /\ sends[c].emitted = <<Emission(SENT, AppHandler(null))>>
        /\ ~inStore(sends[c].id)
        /\ \E p \in messageSlots : messageAt(p).status = READ

\* The call whose latency timer a step has just answered with a rejection.
rejectedNow(c) == sends[c].pc = "latency" /\ sends'[c].pc = "rejected"

\* C18: when a send of the application is rejected its Message is marked
\* FAILED, the rejection starts no new sendMessage call, and a Message that
\* is FAILED stays FAILED whatever happens later.
C18_FailedIsTerminal ==
    [][/\ \A c \in 1..Len(sends) :
            (rejectedNow(c) /\ sends[c].caller = "app") =>
                /\ Len(sends') = Len(sends)
                /\ \A p \in messageSlots :
                      (messageAt(p).id = sends[c].id /\ importers[p[1]].id = sends[c].lead)
                          => importers'[p[1]].chatHistory[p[2]].status = FAILED
       /\ \A p \in messageSlots :
            (/\ messageAt(p).status = FAILED
             /\ p[1] <= Len(importers')
             /\ importers'[p[1]].id = importers[p[1]].id
             /\ p[2] <= Len(importers'[p[1]].chatHistory)
             /\ importers'[p[1]].chatHistory[p[2]].id = messageAt(p).id)
                => importers'[p[1]].chatHistory[p[2]].status = FAILED]_vars

(* ======================= the claims, the correlator =================== *)
\* b occurs in a
ContainsStr(a, b) == \E i, j \in 0..Len(a) : i <= j /\ SubSeq(a, i + 1, j) = b

satisfying(prev, contact) ==
    {k \in 1..Len(prev) :
        ContainsStr(prev[k].contactDetail, contact) \/ ContainsStr(contact, prev[k].contactDetail)}

\* C10: when the handler looks a contact up, it selects the first lead, in
\* store order, whose contactDetail contains the contact or is contained in
\* it, and that lead gets the message; it selects none exactly when no lead
\* satisfies either containment.
C10_FirstMatchingLead ==
    [][Len(hooks') > Len(hooks) =>
        LET h == hooks'[Len(hooks')]
            contact == extract(h.channel, h.payload).contact
            sat == satisfying(importers, contact.v)
        IN  (h.outcome \in {"matched", "unmatched"} /\ contact.t = "string") =>
                /\ h.outcome = "unmatched" <=> sat = {}
                /\ h.outcome = "matched" =>
                      /\ h.lead = importers[Min(sat)].id
                      /\ Len(importers'[Min(sat)].chatHistory)
                            = Len(importers[Min(sat)].chatHistory) + 1]_vars

C10_Witness ==
    \E n \in 1..Len(hooks) :
        LET sat == satisfying(importers, extract(hooks[n].channel, hooks[n].payload).contact.v)
        IN  /\ hooks[n].outcome = "matched"
            /\ Cardinality(sat) >= 2
            /\ Min(sat) > 1
            /\ hooks[n].lead = importers[Min(sat)].id

\* The hook a step has just handled, when it handled one.
handled == Len(hooks') > Len(hooks)
lastHook == hooks'[Len(hooks')]

\* s without spaces, '+', parentheses and hyphens
RECURSIVE stripFormatting(_)
stripFormatting(s) ==
    IF Len(s) = 0 THEN ""
    ELSE (IF SubSeq(s, 1, 1) \in {" ", "+", "(", ")", "-"} THEN "" ELSE SubSeq(s, 1, 1))
         \o stripFormatting(SubSeq(s, 2, Len(s)))

sameNumber(prev, contact) ==
    {k \in 1..Len(prev) : stripFormatting(prev[k].contactDetail) = contact}

\* C11: a WhatsApp payload whose sender equals a lead's contactDetail once
\* spaces, '+', parentheses and hyphens are removed from it ("15558675309"
\* and "+1 (555) 867-5309") is correlated to such a lead, which gets an
\* inbound message with the payload's text.
C11_FormattingTolerated ==
    [][handled =>
        LET x == extract(lastHook.channel, lastHook.payload)
            same == sameNumber(importers, x.contact.v)
        IN  (/\ lastHook.channel = "WhatsApp"
             /\ ~x.threw /\ x.content.t = "string" /\ x.content.v # ""
             /\ x.contact.t = "string" /\ x.contact.v # ""
             /\ same # {}) =>
                /\ lastHook.outcome = "matched"
                /\ \E k \in same :
                      /\ importers[k].id = lastHook.lead
                      /\ Len(importers'[k].chatHistory) = Len(importers[k].chatHistory) + 1
                      /\ importers'[k].chatHistory[Len(importers'[k].chatHistory)].content
                            = x.content.v]_vars

\* The inbound-message events emitted so far to a registered handler.
inboundEvents(rs) ==
    UNION {{<<r, j>> : j \in {i \in 1..Len(rs[r].events) :
                                /\ rs[r].events[i].kind = "incoming"
                                /\ rs[r].events[i].to # NoHandler}} : r \in 1..Len(rs)}

\* C12: the handling of a webhook payload that matches a lead emits exactly
\* one inbound-message event to the handler registered with
\* onIncomingMessage.
C12_MatchEmitsInboundEvent ==
    [][(handled /\ lastHook.outcome = "matched") =>
            Cardinality(inboundEvents(replies')) = Cardinality(inboundEvents(replies)) + 1]_vars

\* C13: whatever the payload (null, undefined, missing fields, a content
\* or a contact that is no string) and the channel, the webhook handler
\* raises no exception and leaves the lead store as it was.
C13_MalformedIsNonFatal ==
    [][(handled /\ lastHook.payload \in MalformedPayloads) =>
            /\ lastHook.outcome # "threw"
            /\ importers' = importers
            /\ enrolled' = enrolled]_vars

\* C15: a payload whose contact no lead matches (no lead's contactDetail
\* contains it or is contained in it) changes nothing: the leads, their
\* chatHistory and activityLog and the enrollments are as before, no lead is
\* added and no event is emitted.
C15_NoMatchNoMutation ==
    [][handled =>
        LET x == extract(lastHook.channel, lastHook.payload)
        IN  (~x.threw /\ satisfying(importers, x.contact.v) = {}) =>
                /\ importers' = importers
                /\ enrolled' = enrolled
                /\ replies' = replies
                /\ importerTypingMap' = importerTypingMap]_vars

C15_Witness ==
    \E n \in 1..Len(hooks) :
        LET x == extract(hooks[n].channel, hooks[n].payload)
        IN  /\ hooks[n].outcome = "unmatched"
            /\ Truthy(x.content) /\ x.contact.t = "string"
            /\ satisfying(importers, x.contact.v) = {}

\* C16: on a match the matched lead, and no other, gets exactly one new
\* Message, last in its chatHistory, with status DELIVERED, sender
\* 'importer', the extracted content and the channel of the payload
\* (WhatsApp -> WHATSAPP, WeChat -> WECHAT), and one more activity-log entry,
\* which names the channel.
C16_MatchAppendsInbound ==
    [][(handled /\ lastHook.outcome = "matched") =>
        LET x == extract(lastHook.channel, lastHook.payload)
        IN  /\ Len(importers') = Len(importers)
            /\ \A k \in 1..Len(importers) :
                  IF importers[k].id # lastHook.lead
                  THEN importers'[k] = importers[k]
                  ELSE LET old == importers[k].chatHistory
                           new == importers'[k].chatHistory
                           msg == new[Len(new)]
                           log == importers'[k].activityLog
                       IN  /\ Len(new) = Len(old) + 1
                           /\ SubSeq(new, 1, Len(old)) = old
                           /\ msg.status = DELIVERED
                           /\ msg.sender = "importer"
                           /\ msg.content = x.content.v
                           /\ msg.channel = (IF lastHook.channel = "WhatsApp"
                                             THEN WHATSAPP ELSE WECHAT)
                           /\ Len(log) = Len(importers[k].activityLog) + 1
                           /\ SubSeq(log, 1, Len(log) - 1) = importers[k].activityLog
                           /\ \E i \in 1..Len(log[Len(log)]) :
                                 log[Len(log)][i] = lastHook.channel]_vars

C16_Witness ==
    \E k \in 1..Len(importers) :
        LET h == importers[k].chatHistory
        IN  /\ Len(h) >= 2
            /\ h[Len(h)].id.pfx = "wh-"
            /\ h[Len(h)].channel = WECHAT
            /\ h[Len(h)].status = DELIVERED

\* C20: halting is idempotent: each inbound message for a lead halts the
\* lead's enrollment; the first halt removes the lead from the enrolled
\* leads and nothing else, and a halt of a lead that is not enrolled (never
\* was, or was halted by an earlier message) changes nothing.
C20_HaltIsIdempotent ==
    [][(handled /\ lastHook.outcome = "matched") =>
            /\ lastHook.lead \notin enrolled'
            /\ enrolled' \subseteq enrolled
            /\ enrolled \ enrolled' \subseteq {lastHook.lead}
            /\ lastHook.lead \notin enrolled => enrolled' = enrolled]_vars

C20_Witness ==
    /\ Len(hooks) = 2
    /\ hooks[1].outcome = "matched" /\ hooks[2].outcome = "matched"
    /\ hooks[1].lead = hooks[2].lead
    /\ hooks[1].lead \in {"1", "2"}
    /\ enrolled = {"1", "2"} \ {hooks[1].lead}

nonEmpty(x) == x.t = "string" /\ x.v # ""

\* What the claim says a WhatsApp payload (an object) yields.
shapeUsed(payload) ==
    LET msg == IF msg0 \in DOMAIN payload.f THEN payload.f[msg0] ELSE Undef
        body == Get(Get(msg, "text"), "body")
    IN  IF msg.t = "object"
        THEN [content |-> IF nonEmpty(body) THEN body ELSE Str("[Media]"),
              contact |-> Get(msg, "from")]
        ELSE [content |-> Get(payload, "message"), contact |-> Get(payload, "from")]

\* C21: for channel WhatsApp the content and the contact come from
\* entry[0].changes[0].value.messages[0] when the payload has it, and from
\* payload.message / payload.from only when it has not; if the shape used
\* does not give a non-empty content and a non-empty contact, no lead
\* changes and no event is emitted.
C21_WhatsAppShapes ==
    [][(handled /\ lastHook.channel = "WhatsApp" /\ lastHook.payload.t = "object") =>
        LET u == shapeUsed(lastHook.payload)
            sat == satisfying(importers, u.contact.v)
        IN  /\ ~(nonEmpty(u.content) /\ nonEmpty(u.contact)) =>
                    /\ importers' = importers /\ enrolled' = enrolled
                    /\ replies' = replies
            /\ (nonEmpty(u.content) /\ nonEmpty(u.contact) /\ sat # {}) =>
                    lastHook.outcome = "matched"
            /\ lastHook.outcome = "matched" =>
                    \E k \in sat :
                        /\ importers[k].id = lastHook.lead
                        /\ importers'[k].chatHistory[Len(importers'[k].chatHistory)].content
                              = u.content.v]_vars

C21_Witness ==
    \E n \in 1..Len(hooks) :
        /\ hooks[n].outcome = "matched"
        /\ hooks[n].lead = "3"
        /\ msg0 \in DOMAIN hooks[n].payload.f
        /\ "message" \in DOMAIN hooks[n].payload.f

\* A step that handled a WeChat payload {Content: c, FromUserName: u}
\* with c and u non-empty strings.
wechatHandled ==
    /\ handled
    /\ lastHook.channel = "WeChat"
    /\ lastHook.payload.t = "object"
    /\ nonEmpty(Get(lastHook.payload, "Content"))
    /\ nonEmpty(Get(lastHook.payload, "FromUserName"))

inboundAppended(k, content, channel) ==
    LET old == importers[k].chatHistory
        new == importers'[k].chatHistory
    IN  /\ Len(new) = Len(old) + 1
        /\ SubSeq(new, 1, Len(old)) = old
        /\ new[Len(new)].content = content
        /\ new[Len(new)].channel = channel
        /\ new[Len(new)].sender = "importer"

\* C22, as stated: a WeChat payload {Content: c, FromUserName: u} gives the
\* lead whose contactDetail equals u an inbound Message with content c on
\* channel WECHAT.
C22_ExactLeadGetsMessage ==
    [][wechatHandled =>
        \A k \in 1..Len(importers) :
            importers[k].contactDetail = Get(lastHook.payload, "FromUserName").v
                => inboundAppended(k, Get(lastHook.payload, "Content").v, WECHAT)]_vars

\* C22, amended: the Message goes to the first lead, in store order, whose
\* contactDetail contains u or is contained in u; this is the lead whose
\* contactDetail equals u when no lead before it matches.
C22_FirstMatchGetsMessage ==
    [][wechatHandled =>
        LET u == Get(lastHook.payload, "FromUserName").v
            sat == satisfying(importers, u)
        IN  sat # {} =>
                /\ lastHook.outcome = "matched"
                /\ inboundAppended(Min(sat), Get(lastHook.payload, "Content").v, WECHAT)
                /\ \A k \in 1..Len(importers) : k # Min(sat) => importers'[k] = importers[k]]_vars

C22_Witness ==
    \E n \in 1..Len(hooks) : \E k \in 1..Len(importers) :
        /\ hooks[n].channel = "WeChat" /\ hooks[n].outcome = "matched"
        /\ hooks[n].lead = importers[k].id
        /\ hooks[n].payload = Obj([Content |-> Str("ok"), FromUserName |-> Str("wx_123")])
        /\ importers[k].contactDetail = "wx_123"
        /\ k > 1
        /\ Len(importers[k].chatHistory) > 0
        /\ importers[k].chatHistory[Len(importers[k].chatHistory)].channel = WECHAT

(* ==================== the claims, calls side by side ================== *)
\* The Message in slot p keeps its stored status in the step.
statusKept(p) == importers'[p[1]].chatHistory[p[2]].status = messageAt(p).status

\* The step answers call c: with a rejection, or with a status emission.
answeredNow(c) == rejectedNow(c) \/ newEmissions(c) # {}

\* C24: calls are independent. A step that rejects a send, or makes the
\* emission of an accepted send, adds no emission to any other send and
\* changes the stored status of no Message of another send and of no
\* Message with another id; a step that drops an inbound payload adds no
\* emission and changes no stored status at all.
C24_CallsAreIndependent ==
    [][/\ \A c \in 1..Len(sends) : answeredNow(c) =>
            /\ \A d \in 1..Len(sends) \ {c} :
                  /\ sends'[d].emitted = sends[d].emitted
                  /\ \A p \in messageSlots :
                        messageAt(p).id = sends[d].id => statusKept(p)
            /\ \A p \in messageSlots :
                  messageAt(p).id # sends[c].id => statusKept(p)
       /\ (handled /\ lastHook.outcome # "matched") =>
            /\ \A d \in 1..Len(sends) : sends'[d].emitted = sends[d].emitted
            /\ \A p \in messageSlots : statusKept(p)]_vars

\* The Messages with the id of call c in the lead the call was made for.
ownSlots(c) ==
    {p \in messageSlots : importers[p[1]].id = sends[c].lead /\ messageAt(p).id = sends[c].id}

\* C27: the application keeps the precondition of sendMessage. In the step
\* that makes the call, the target lead holds a Message with the call's id
\* and status SENDING; and when the call is answered (SENT emitted, or the
\* rejection marked FAILED) every Message with that id the lead still holds
\* is SENDING (it holds none when the store was replaced meanwhile).
C27_SendPrecondition ==
    [][/\ \A c \in 1..Len(sends') : (latencyArmed(c) /\ sends'[c].caller = "app") =>
            \E k \in 1..Len(importers') :
                /\ importers'[k].id = sends'[c].lead
                /\ \E j \in 1..Len(importers'[k].chatHistory) :
                      /\ importers'[k].chatHistory[j].id = sends'[c].id
                      /\ importers'[k].chatHistory[j].status = SENDING
       /\ \A c \in 1..Len(sends) :
            ((rejectedNow(c) \/ resolvedNow(c)) /\ sends[c].caller = "app") =>
                \A p \in ownSlots(c) : messageAt(p).status = SENDING]_vars

\* The step belongs to a send, a status emission, a webhook payload or a
\* mock reply: these, and no other step, change sends, hooks or replies.
messagingStep == <<sends, hooks, replies>>' # <<sends, hooks, replies>>

\* chatHistory `next` continues `prev`: the Messages of prev are all there,
\* in their places, changed at most in status, and what is new comes after.
continues(prev, next) ==
    /\ Len(next) >= Len(prev)
    /\ \A j \in 1..Len(prev) : next[j] = [prev[j] EXCEPT !.status = next[j].status]

\* C28: through outbound sends, status emissions, webhook correlation and
\* mock replies the chatHistory of every lead is append-only: the leads
\* stay, no Message is removed or moved, an existing Message changes in its
\* status only, and new Messages come at the end.
C28_AppendOnly ==
    [][messagingStep =>
          /\ Len(importers') = Len(importers)
          /\ \A k \in 1..Len(importers) :
                /\ importers'[k].id = importers[k].id
                /\ continues(importers[k].chatHistory, importers'[k].chatHistory)]_vars

C28_Witness ==
    \E k \in 1..Len(importers) : \E i, j \in 1..Len(importers[k].chatHistory) :
        /\ 1 < i /\ i < j
        /\ importers[k].chatHistory[1] = MOCK_IMPORTERS[k].chatHistory[1]
        /\ importers[k].chatHistory[i].sender = "agent"
        /\ importers[k].chatHistory[i].status \in {SENT, DELIVERED, READ}
        /\ importers[k].chatHistory[j].sender = "importer"

\* A WhatsApp payload in the primary shape whose message has a sender and
\* no text body (no text at all, or an empty body).
mediaMessage(payload) ==
    LET msg == Get(payload, msg0)
        text == Get(msg, "text")
    IN  /\ payload.t = "object" /\ msg.t = "object"
        /\ nonEmpty(Get(msg, "from"))
        /\ (text.t = "undefined" \/ (text.t = "object" /\ ~nonEmpty(Get(text, "body"))))

\* C36: a WhatsApp payload in the primary shape whose message has no text
\* body and a non-empty sender is not dropped for lack of content: it is
\* looked up like any other message, and when a lead matches, the first one
\* gets an inbound Message with the content "[Media]"; it is left aside only
\* when no lead matches.
C36_MediaIsRecorded ==
    [][(handled /\ lastHook.channel = "WhatsApp" /\ mediaMessage(lastHook.payload)) =>
        LET sat == satisfying(importers, Get(Get(lastHook.payload, msg0), "from").v)
        IN  /\ lastHook.outcome \in {"matched", "unmatched"}
            /\ lastHook.outcome = "unmatched" <=> sat = {}
            /\ sat # {} => inboundAppended(Min(sat), "[Media]", WHATSAPP)]_vars

C36_Witness ==
    \E n \in 1..Len(hooks) : \E k \in 1..Len(importers) :
        /\ hooks[n].channel = "WhatsApp" /\ mediaMessage(hooks[n].payload)
        /\ Get(Get(hooks[n].payload, msg0), "text").t = "undefined"
        /\ hooks[n].outcome = "matched" /\ hooks[n].lead = importers[k].id
        /\ importers[k].chatHistory # <<>>
        /\ importers[k].chatHistory[Len(importers[k].chatHistory)].content = "[Media]"

\* The leads the step has changed.
changedLeads ==
    {k \in 1..Len(importers) : k > Len(importers') \/ importers'[k] # importers[k]}

\* C29: a correlated payload changes exactly one lead, the first in store
\* order that matches its contact: that lead gains exactly one Message after
\* the ones it had, and every other lead, the later leads that match the
\* contact as well, is as it was; no lead is added or removed.
C29_ExactlyOneLeadChanges ==
    [][(handled /\ lastHook.outcome = "matched") =>
        LET sat == satisfying(importers,
                              extract(lastHook.channel, lastHook.payload).contact.v)
            first == Min(sat)
        IN  /\ Len(importers') = Len(importers)
            /\ changedLeads = {first}
            /\ Len(importers'[first].chatHistory) = Len(importers[first].chatHistory) + 1
            /\ continues(importers[first].chatHistory, importers'[first].chatHistory)]_vars

C29_Witness ==
    \E n \in 1..Len(hooks) :
        LET sat == satisfying(importers, extract(hooks[n].channel, hooks[n].payload).contact.v)
        IN  /\ Len(hooks) = 1 /\ hooks[n].outcome = "matched"
            /\ Cardinality(sat) >= 2
            /\ Len(importers[Min(sat)].chatHistory) = 1
            /\ importers[Min(sat)].chatHistory[1].id.pfx = "wh-"
            /\ \A k \in sat \ {Min(sat)} : importers[k].chatHistory = <<>>

\* The Message of call c has left SENDING for good reason: FAILED when the
\* call was rejected, DELIVERED or READ when it was accepted; or the lead no
\* longer holds it (the store was replaced).
leftSending(c) ==
    \/ ownSlots(c) = {}
    \/ /\ sends[c].result = GatewayTimeout
       /\ \A p \in ownSlots(c) : messageAt(p).status = FAILED
    \/ /\ sends[c].result = Success
       /\ \A p \in ownSlots(c) : messageAt(p).status \in {DELIVERED, READ}

\* C30: with timers that fire (weak fairness), every message the
\* application passes to sendMessage leaves SENDING: from the call on, as
\* long as its lead still holds it, there comes a state where it is FAILED
\* when the send is rejected and DELIVERED or READ when the send is
\* accepted. The application's status handler is registered from the start
\* and stays so.
C30_EveryMessageLeavesSending ==
    /\ \A c \in 1..MaxSends :
            (c <= Len(sends) /\ sends[c].caller = "app" /\ sends[c].pc = "latency")
                ~> (c <= Len(sends) /\ leftSending(c))
    /\ [](statusListener # NoHandler)

C30_Witness ==
    \E c, d \in 1..Len(sends) :
        /\ sends[c].id # sends[d].id
        /\ sends[c].result = Success /\ ownSlots(c) # {}
        /\ \A p \in ownSlots(c) : messageAt(p).status \in {DELIVERED, READ}
        /\ sends[d].result = GatewayTimeout /\ ownSlots(d) # {}
        /\ \A p \in ownSlots(d) : messageAt(p).status = FAILED

\* The reply whose timer fires in the step.
firedNow(r) == replies[r].pc = "typing" /\ replies'[r].pc = "done"

\* C35: an inbound-message event is applied to the lead its importerId
\* names, to the lead selected at that moment when it names none, to no
\* lead when none is selected either: then nothing changes. When it is
\* applied, the enrollment of that lead is halted and that lead gets exactly
\* one Message more, last, with sender 'importer' and the content and
\* channel of the event; every other lead stays as it was.
C35_InboundGoesToNamedOrSelected ==
    [][\A r \in 1..Len(replies) : firedNow(r) =>
          LET targetId == IF replies[r].importerId \in {"", null}
                          THEN selectedId ELSE replies[r].importerId
          IN  IF targetId \in {"", null}
              THEN importers' = importers /\ enrolled' = enrolled
              ELSE /\ targetId \notin enrolled'
                   /\ enrolled' \cup {targetId} = enrolled \cup {targetId}
                   /\ Len(importers') = Len(importers)
                   /\ \A k \in 1..Len(importers) :
                        IF importers[k].id # targetId
                        THEN importers'[k] = importers[k]
                        ELSE LET old == importers[k].chatHistory
                                 new == importers'[k].chatHistory
                             IN  /\ Len(new) = Len(old) + 1
                                 /\ SubSeq(new, 1, Len(old)) = old
                                 /\ new[Len(new)].sender = "importer"
                                 /\ new[Len(new)].content = replies[r].content
                                 /\ new[Len(new)].channel = replies[r].channel]_vars

C35_Witness ==
    /\ selectedId = "1"
    /\ "1" \notin enrolled
    /\ \E r \in 1..Len(replies) : replies[r].pc = "done" /\ replies[r].importerId = ""
    /\ \E k \in 1..Len(importers) :
          /\ importers[k].id = "1"
          /\ Len(importers[k].chatHistory) = 1
          /\ importers[k].chatHistory[1].sender = "importer"
          /\ importers[k].chatHistory[1].channel = WECHAT
    /\ \A k \in 1..Len(importers) :
          importers[k].id # "1" => importers[k] = MOCK_IMPORTERS[k]

(* ===================== the claims, the webhook server ================= *)
\* C14: every POST on /webhooks/whatsapp and /webhooks/wechat is answered
\* with a 2xx status, whatever the body.
C14_AlwaysAcknowledged ==
    \A k \in 1..Len(posts) : posts[k].status \in 200..299

\* The requests the two routes have answered.
routePosts == {k \in 1..Len(posts) : posts[k].route # ""}

\* C37: the transport forwards each webhook POST it accepts to the window
\* exactly once, under the channel of the route it came on ('WhatsApp' for
\* /webhooks/whatsapp, 'WeChat' for /webhooks/wechat) with the body it came
\* with and the time of its arrival, and forwards no POST it refuses; the
\* window handles the forwarded payloads one by one in their order, each
\* once; and a payload whose channel is neither 'WhatsApp' nor 'WeChat'
\* changes no lead.
C37_ForwardedOnceWithItsChannel ==
    /\ [](\A k \in routePosts :
            /\ posts[k].sent <=> posts[k].status = 200
            /\ posts[k].channel = (IF posts[k].route = "/webhooks/whatsapp"
                                   THEN "WhatsApp" ELSE "WeChat"))
    /\ [](/\ Len(hooks) <= Len(forwarded)
          /\ \A n \in 1..Len(hooks) :
                /\ hooks[n].channel = forwarded[n].channel
                /\ hooks[n].payload = forwarded[n].body)
    /\ [][/\ Len(posts') > Len(posts) =>
                /\ Len(posts') = Len(posts) + 1
                /\ SubSeq(posts', 1, Len(posts)) = posts
                /\ posts'[Len(posts')].timestamp = now
          /\ (handled /\ lastHook.channel \notin {"WhatsApp", "WeChat"}) =>
                (importers' = importers /\ enrolled' = enrolled)]_vars

C37_Witness ==
    /\ Len(hooks) = 2
    /\ posts[1].route = "/webhooks/wechat" /\ posts[1].sent
    /\ hooks[1].channel = "WeChat" /\ hooks[1].outcome = "matched"
    /\ posts[2].route = "" /\ posts[2].body = posts[1].body
    /\ hooks[2].channel = "Telegram" /\ hooks[2].outcome = "dropped"

====
